---- MODULE Spec2Model ----
(***************************************************************************)
(* Model of the publish engine of markdown-confluence: the Publisher      *)
(* (packages/lib/src/Publisher.ts), the remote tree reconciler            *)
(* (packages/lib/src/TreeConfluence.ts) and the remote they talk to.      *)
(*                                                                         *)
(* The sources hold two revisions of the engine.  rev = "R1" is           *)
(* TreeConfluence.ts with the Publisher of Publisher.ts lines 666-1355;   *)
(* rev = "R2" is the v2-folder-aware reconciler (src/unnamed/part_003)    *)
(* with the Publisher of Publisher.ts lines 1-665.  Every behaviour of    *)
(* the model runs one of the two, chosen in the initial state.            *)
(*                                                                         *)
(* Beside the engine the module models, each in a specification of its    *)
(* own with the engine at rest: MarkdownParser.getFrontmatterFromMd        *)
(* (SpecParse), the Obsidian adaptor's updateMarkdownValues (SpecVault),   *)
(* the entry points of the Obsidian plugin (SpecPlugin, SpecPluginLive)    *)
(* and the label calls of the Obsidian client (SpecLabels).                *)
(***************************************************************************)
EXTENDS Integers, Sequences, FiniteSets, TLC

\* ------------------------------------------------------------------ bounds
\* Remote objects that exist before a run carry a version in 1..MaxVersion.
MaxVersion == 2
\* At most MaxFaults remote or adaptor calls fail in one behaviour.
MaxFaults == 1

\* ------------------------------------------------------------ value domains
Revs == {"R1", "R2"}
ContentTypes == {"page", "blogpost", "folder"}
\* The client: plain v1, v2 with the folder endpoints, v2 without them.
Clients == {"v1", "v2", "v2nofolders"}

\* Account IDs.  Me is the account getCurrentUser answers with.
Me == "me"
Other == "other"
NoAccountId == "NO ACCOUNT ID"

\* Documents.  "d1m" is "d1" with the inline marks of one text run in another
\* order; "blank" is the placeholder body of a freshly created page and
\* "empty" is doc(p()).
Docs == {"d1", "d1m", "d2", "blank", "empty"}
Labels == {"a", "b", "c"}

\* The local tree: node 0 is the root, 1 and 3 are its children, 2 is the
\* child of 1.
Root == 0
Nodes == {1, 2, 3}
Parent(n) == IF n = 2 THEN 1 ELSE Root
Children(p) == {c \in Nodes : Parent(c) = p}

\* Remote IDs.  "" is the absent ID.
TopId == "100"
HomeId == "50"
ForeignId == "200"
ExistingId(n) == IF n = 1 THEN "e1" ELSE IF n = 2 THEN "e2" ELSE "e3"
NewIds == <<"n1", "n2", "n3", "n4", "n5", "n6">>

AllIds == {TopId, HomeId, ForeignId, "e1", "e2", "e3"} \cup {NewIds[i] : i \in 1..Len(NewIds)}

NoObj == [type |-> "none", title |-> "", body |-> "", version |-> 0,
          by |-> "", parent |-> "", labels |-> {}]

VARIABLES
    rev,          \* the revision of the engine that runs
    client,       \* the capabilities of the Confluence client
    files,        \* the loaded local files, per node (LocalAdfFile)
    fmPageId,     \* the page ID stored in each file's front matter
    remote,       \* the remote space: ID -> object
    nextNew,      \* how many IDs the remote has handed out
    myAccountId,  \* Publisher.myAccountId ("" while undefined)
    phase,        \* where publish() is
    pages,        \* confluencePagesToPublish: the nodes handed to the update
    cnode,        \* the reconciled node (ConfluenceNode) of each node
    upc,          \* where each node's publishFile task is
    ures,         \* the UploadAdfFileResult a task is building
    lblQ,         \* labels a task still has to remove
    result,       \* the FilePublishResult of each node
    writes,       \* the remote write requests issued for each node, in order
    answers,      \* how each call of a node's update was answered, in order
    faults,       \* failures injected so far
    mode,         \* settings.publishingMode: "legacy" or "frontmatter"
    publishFilter,\* the path publish() was called with ("": none)
    frontmatter,  \* MarkdownParser: the front matter read and what is returned
    vault,        \* Obsidian adaptor: each note's updateMarkdownValues call
    plugin,       \* Obsidian plugin: isSyncing and the publishes its UI started
    labelCall,    \* Obsidian client: one label reconciliation down to the wire
    tree,         \* the nodes of the local tree below the root
    psf,          \* parent page IDs: those findPSFsByFrontmatter answers with
                  \* (found) and those publish() has still to try (left)
    runs,         \* how the earlier calls of publish() ended
    rec,          \* each node's createFileStructureInConfluence task
    rejection,    \* what publish() rejected with ("none": it has not rejected)
    threw         \* the first step of publish() that threw, and what it threw

\* What lies outside publish(): the parser of the front matter, the Obsidian
\* adaptor's write of the front matter, the plugin's entry points, and the
\* Obsidian client below contentLabels.
auxVars == <<frontmatter, vault, plugin, labelCall>>

updVars == <<pages, cnode, upc, ures, lblQ, result, writes, answers>>
recVars == <<mode, publishFilter, auxVars, tree, psf, runs, rec, rejection, threw>>
\* The variables of publish().
engineVars == <<rev, client, files, fmPageId, remote, nextNew, myAccountId, phase, faults,
                updVars, mode, publishFilter, tree, psf, runs, rec, rejection, threw>>

\* ------------------------------------------------------- the front matter

\* What a key of the YAML front matter may carry: nothing (the key is not
\* there), null, the empty string, an ID written as a string or as a number.
Absent == "<absent>"
\* JavaScript truthiness of a parsed value.
Truthy(v) == v \notin {Absent, "<yaml null>", "''"}

\* matter.data: the two parent keys and two keys the parser does not look at.
FrontmatterData ==
    [page : {Absent, "<yaml null>", "''", "'123'", "456"},
     folder : {Absent, "<yaml null>", "''", "'123'", "456"},
     title : {Absent, "'t'"}, publish : {Absent, "true"}]

\* A parser that returns the front matter as it was read.
keepFrontmatter(data) == [data |-> data, warned |-> FALSE]
\* getFrontmatterFromMd: with both parent IDs the parent page ID is deleted
\* and a warning is logged.
getFrontmatterFromMd(data) ==
    IF Truthy(data.page) /\ Truthy(data.folder)
    THEN [data |-> [data EXCEPT !.page = Absent], warned |-> TRUE]
    ELSE [data |-> data, warned |-> FALSE]

\* No front matter is being parsed.
ParserIdle == frontmatter = [pc |-> "none", read |-> <<>>, data |-> <<>>, warned |-> FALSE]
\* No note of the vault is being written.
VaultIdle ==
    vault = [n \in {1, 2, 3} |-> [isTFile |-> FALSE, pc |-> "idle", write |-> "none", fm |-> ""]]
\* The plugin is loaded and nothing has been triggered.
PluginIdle == plugin = [isSyncing |-> FALSE, runs |-> <<>>, last |-> "none"]
\* No label call is being followed down to the wire.
LabelCallIdle == labelCall = [pc |-> "none"]
\* Nothing outside publish() is going on.
AuxIdle == ParserIdle /\ VaultIdle /\ PluginIdle /\ LabelCallIdle

\* ------------------------------------------------------- pure helpers

\* AdfEqual.adfEqual: structural equality after the marks of every text run
\* are put in order.
OrderMarks(d) == IF d = "d1m" THEN "d1" ELSE d
adfEqual(a, b) == OrderMarks(a) = OrderMarks(b)

\* JSON.stringify of a document: the text keeps the order of the marks.
JsonStringify(d) == d

\* JSON.parse(existingAdf ?? "{}") of a body the remote returned.
JsonParse(s) == s

SeqToSet(s) == {s[i] : i \in 1..Len(s)}
Last(s) == s[Len(s)]

\* String.prototype.trim() !== '' on an ID.
NonBlank(id) == id # ""

\* ------------------------------------------------ thrown values, results

\* What a failing remote or adaptor call rejects with: an Error with a
\* message, an Error with an empty message, or the value undefined.
Thrown == {"msg", "empty", "undef"}
Undefined == "<undefined>"
\* e.message of an Error; JSON.stringify(e) of the value undefined.
ReasonOf(e) ==
    CASE e = "msg" -> "Received a 500"
      [] e = "empty" -> ""
      [] e = "undef" -> Undefined
      [] e = "foreign" -> "Page last updated by another user. Won't publish over their changes."
      [] e = "convert" -> "Cannot convert between content types."
      [] e = "404" -> "Received a 404"
      [] e = "noparent" -> "No parent page ID defined for file"
      [] e = "nofile" -> "Missing file on node"
      [] e = "boundary" -> "is trying to overwrite a page outside the page tree from the selected top page"
      [] e = "nospaceid" -> "Failed to get space ID. V2 folder API requires a valid space ID."
      [] e = "nofolders" -> "v2.folders.createFolder is not available"
      [] e = "nospace" -> "No space found from parent pages"
      [] e = "nowhere" -> "Could not determine space to publish to: "
      [] OTHER -> e

\* The outcomes a call may have now.
Outcomes == {"ok"} \cup (IF faults < MaxFaults THEN Thrown ELSE {})
Bump(o) == IF o = "ok" THEN faults ELSE faults + 1
\* The answer to a call: the failure, or "refused" when the remote turns a
\* well-delivered request down.
Answered(n, call, o, accepted) ==
    answers' = [answers EXCEPT ![n] =
                  Append(@, [call |-> call,
                             out |-> IF o # "ok" THEN o
                                     ELSE IF accepted THEN "ok" ELSE "refused"])]

NoRes == [contentResult |-> "same", imageResult |-> "same", labelResult |-> "same"]
NoResult == [kind |-> "none", reason |-> Undefined, upload |-> NoRes]
NoQ == [add |-> {}, remove |-> {}, cur |-> {}]

\* publishFile's return after updatePageContent resolved.
Success(r) == [kind |-> "success", reason |-> Undefined, upload |-> r]
\* A publishFile whose catch throws the value on.
PublishFileRethrow(e) == [kind |-> "rejected", reason |-> ReasonOf(e), upload |-> NoRes]
\* publishFile's catch: { node, reason: e.message } or
\* { node, reason: JSON.stringify(e) }.
PublishFileCatch(e) == [kind |-> "failure", reason |-> ReasonOf(e), upload |-> NoRes]

\* ------------------------------------------------------------ the remote

Exists(id) == id \in DOMAIN remote /\ remote[id].type # "none"

\* The IDs of the ancestors of a remote object, from the top down to its
\* parent.
RECURSIVE ChainOf(_, _)
ChainOf(id, fuel) ==
    IF fuel = 0 \/ ~Exists(id) \/ remote[id].parent = "" THEN <<>>
    ELSE Append(ChainOf(remote[id].parent, fuel - 1), remote[id].parent)
AncestorsOf(id) == ChainOf(id, 4)

\* MyBaseClient's content.updateContent on a client with apiVersion v2 asks
\* the remote for the type of the object first (determineContentTypeForId),
\* which may come back undefined.  It then uses a v2 endpoint when the type
\* was detected, or when the type of the request is page or folder; for a
\* blogpost whose type was not detected it falls back to the v1 endpoint.
UsesV2Endpoint(req, detected) ==
    /\ client \in {"v2", "v2nofolders"}
    /\ detected \/ req.type \in {"page", "folder"}

\* The request as it reaches the remote.  The v2 branches send
\* params.version.number + 1 and, of the ancestors, the first as parentId; the
\* v1 endpoint gets the parameters as they are.
OnTheWire(req, detected) ==
    IF UsesV2Endpoint(req, detected)
    THEN [req EXCEPT !.version = req.version + 1,
                     !.hasAncestors = req.hasAncestors /\ Len(req.ancestors) > 0,
                     !.ancestors = IF Len(req.ancestors) > 0 THEN <<req.ancestors[1]>>
                                   ELSE <<>>]
    ELSE req

\* Whether the remote takes a content update: the object exists, the version
\* is the next one, and a named parent exists.
RemoteAcceptsUpdate(req) ==
    /\ Exists(req.id)
    /\ req.version = remote[req.id].version + 1
    /\ req.hasAncestors =>
          /\ Len(req.ancestors) > 0
          /\ Exists(Last(req.ancestors))
          /\ Last(req.ancestors) # req.id

RemoteAfterUpdate(req) ==
    [remote EXCEPT ![req.id] =
        [@ EXCEPT !.title = req.title, !.body = JsonParse(req.body),
                  !.version = req.version, !.by = Me,
                  !.parent = IF req.hasAncestors THEN Last(req.ancestors) ELSE @]]

\* --------------------------------------------- updatePageContent: decisions

isV2Api == client \in {"v2", "v2nofolders"}
hasV2Folders == client = "v2"

\* A guard that lets every editor through.
NoForeignEditGuard(lastUpdatedBy) == FALSE
\* The foreign-edit guard.
ForeignEditGuard(lastUpdatedBy) ==
    IF rev = "R2"
    THEN lastUpdatedBy # myAccountId /\ lastUpdatedBy # ""
    ELSE lastUpdatedBy # myAccountId

\* An update without the content-type guard.
NoContentTypeGuard(contentType, existingType) == FALSE
\* The content-type guard.
ContentTypeGuard(contentType, existingType) ==
    IF rev = "R2" /\ contentType = "folder" /\ isV2Api
    THEN FALSE
    ELSE existingType # contentType

\* The ADF processing pipeline of R1 (no plugin changes the document here).
Pipeline(d) == d

\* R1: existingPageDetails and newPageDetails, compared with isEqual.  A
\* blogpost and a pinned page carry no ancestors on either side.
SkipsAncestorsR1(f) == f.contentType = "blogpost" \/ f.dontChange
NewAncestorsR1(anc) == SelectSeq(anc, NonBlank)
DetailsEqualR1(f, c) ==
    /\ c.exTitle = f.pageTitle
    /\ c.exType = f.contentType
    /\ SkipsAncestorsR1(f) \/ c.exAncestors = NewAncestorsR1(c.ancestors)

\* R2: the ancestors the update request carries (<<>> with hasAncestors
\* FALSE when the key is left out).
SendsAncestorsR2(f, c) ==
    IF ~f.dontChange /\ f.parentPageId # "" THEN TRUE ELSE Len(c.ancestors) > 0
AncestorsR2(f, c) ==
    IF ~f.dontChange /\ f.parentPageId # "" THEN <<f.parentPageId>>
    ELSE IF Len(c.ancestors) > 0 THEN <<c.ancestors[1]>> ELSE <<>>

\* An updater that writes the content whatever the comparison says.
AlwaysNeedsContentUpdate(f, c) == TRUE
\* Whether updatePageContent calls content.updateContent.
NeedsContentUpdate(f, c) ==
    IF rev = "R2"
    THEN /\ ~adfEqual(f.contents, c.exContent)
         /\ IF JsonStringify(f.contents) = JsonStringify(c.exContent)
            THEN f.pageTitle # c.exTitle
            ELSE TRUE
    ELSE \/ ~adfEqual(c.exContent, Pipeline(f.contents))
         \/ ~DetailsEqualR1(f, c)

\* The request of content.updateContent.
UpdateRequest(f, c) ==
    [op |-> "updateContent", id |-> c.pageId, title |-> f.pageTitle,
     type |-> IF rev = "R2" THEN c.exType ELSE f.contentType,
     version |-> c.version + 1,
     body |-> JsonStringify(IF rev = "R2" THEN f.contents ELSE Pipeline(f.contents)),
     hasAncestors |-> IF rev = "R2" THEN SendsAncestorsR2(f, c) ELSE ~SkipsAncestorsR1(f),
     ancestors |-> IF rev = "R2" THEN AncestorsR2(f, c)
                   ELSE IF SkipsAncestorsR1(f) THEN <<>> ELSE NewAncestorsR1(c.ancestors),
     labels |-> {}]

\* Requests that carry no content.
Req(op, id, title, labels) ==
    [op |-> op, id |-> id, title |-> title, type |-> "", version |-> 0, body |-> "",
     hasAncestors |-> FALSE, ancestors |-> <<>>, labels |-> labels]

vars == <<rev, client, files, fmPageId, remote, nextNew, myAccountId, phase,
          pages, cnode, upc, ures, lblQ, result, writes, answers, faults,
          mode, publishFilter, auxVars, tree, psf, runs, rec, rejection, threw>>

\* ------------------------------------------------ what the reconciler returns

\* A loaded file (LocalAdfFile).
File(ct, title, contents, tags, ppid, dc, pid) ==
    [contentType |-> ct, pageTitle |-> title, contents |-> contents, tags |-> tags,
     parentPageId |-> ppid, parentFolderId |-> "", dontChange |-> dc, pageId |-> pid,
     note |-> TRUE]
NoFile == File("page", "", "empty", {}, "", FALSE, "")

\* The file the adaptor makes up for a directory without a folder note: a
\* folder with no content and no page ID, whose path is not a note (note
\* tells whether the path is a markdown file of the vault).
createFolderFile(title, parentPageId) ==
    [File("folder", title, "empty", {}, parentPageId, FALSE, "") EXCEPT !.note = FALSE]

\* A remote object.
Obj(type, title, body, version, by, parent, labels) ==
    [type |-> type, title |-> title, body |-> body, version |-> version,
     by |-> by, parent |-> parent, labels |-> labels]

\* ensurePageExists: the details it returns for the remote object it settled on.
PageDetails(id) ==
    [id |-> id, version |-> remote[id].version,
     lastUpdatedBy |-> IF remote[id].by = "" THEN NoAccountId ELSE remote[id].by,
     existingAdf |-> remote[id].body, pageTitle |-> remote[id].title,
     ancestors |-> AncestorsOf(id), contentType |-> remote[id].type]

\* R2 reads pageDetails.version.number, and pageDetails.version is a number:
\* the property is undefined and "|| 0" makes the version 0.
VersionDataNumber(v) == 0

\* createFileStructureInConfluence: the tree node built from the details;
\* chain is the ancestor chain flattenTree hands down.
PageNode(d, chain) ==
    [pageId |-> d.id,
     version |-> IF rev = "R2" THEN VersionDataNumber(d.version) ELSE d.version,
     lastUpdatedBy |-> d.lastUpdatedBy, exContent |-> JsonParse(d.existingAdf),
     exTitle |-> d.pageTitle, exAncestors |-> d.ancestors,
     exType |-> d.contentType, ancestors |-> chain]

\* R2, folder through the v2 folder endpoints: the tree node built from the
\* folder the remote answered with.
FolderNode(id, chain) ==
    [pageId |-> id, version |-> remote[id].version,
     lastUpdatedBy |-> remote[id].by, exContent |-> "empty",
     exTitle |-> remote[id].title,
     exAncestors |-> IF remote[id].parent # "" THEN <<remote[id].parent>> ELSE <<>>,
     exType |-> "folder", ancestors |-> chain]

NoNode == [pageId |-> "", version |-> 0, lastUpdatedBy |-> "", exContent |-> "empty",
           exTitle |-> "", exAncestors |-> <<>>, exType |-> "page", ancestors |-> <<>>]

UsesFolderEndpoints(ct) == rev = "R2" /\ ct = "folder" /\ isV2Api

Reconciled(ct, id, chain) ==
    IF UsesFolderEndpoints(ct) THEN FolderNode(id, chain)
    ELSE PageNode(PageDetails(id), chain)

\* ------------------------------------------ publishFile / updatePageContent

Task(pc, res, q, rslt, ws) == [pc |-> pc, res |-> res, q |-> q, result |-> rslt, ws |-> ws]
Finished(rslt) == Task("done", NoRes, NoQ, rslt, <<>>)

\* After the guards, and in R1 after the pipeline: update the content, or go
\* on to the labels.  contentResult is set before the call is awaited.
ContentStep(f, c, res) ==
    IF NeedsContentUpdate(f, c)
    THEN Task("content", [res EXCEPT !.contentResult = "updated"], NoQ, NoResult,
              <<UpdateRequest(f, c)>>)
    ELSE Task("labels", res, NoQ, NoResult, <<>>)

\* updatePageContent up to its first await, inside publishFile's try.
BeginUpdate(n) ==
    LET f == files[n]
        c == cnode[n]
    IN  IF ForeignEditGuard(c.lastUpdatedBy) THEN Finished(PublishFileCatch("foreign"))
        ELSE IF ContentTypeGuard(f.contentType, c.exType)
             THEN Finished(PublishFileCatch("convert"))
        ELSE IF rev = "R1" THEN Task("att", NoRes, NoQ, NoResult, <<>>)
        ELSE IF f.contentType = "folder" /\ isV2Api /\ hasV2Folders
             THEN IF f.pageTitle # c.exTitle
                  THEN Task("rename", NoRes, NoQ, NoResult,
                            <<Req("updateFolder", c.pageId, f.pageTitle, {})>>)
                  ELSE Finished(Success(NoRes))
        ELSE ContentStep(f, c, NoRes)

\* A task moves on: its new position, result so far, label queue, final
\* result, and the requests it issues now.
Move(n, t) ==
    /\ upc' = [upc EXCEPT ![n] = t.pc]
    /\ ures' = [ures EXCEPT ![n] = t.res]
    /\ lblQ' = [lblQ EXCEPT ![n] = t.q]
    /\ result' = [result EXCEPT ![n] = t.result]
    /\ writes' = [writes EXCEPT ![n] = @ \o t.ws]

\* publish(): confluencePagesToPublish.map(publishFile) starts every task, each
\* running to its first await.
StartUpdates ==
    /\ phase = "update"
    /\ \A n \in pages : upc[n] = "idle"
    /\ pages # {}
    /\ upc' = [n \in Nodes |-> IF n \in pages THEN BeginUpdate(n).pc ELSE upc[n]]
    /\ ures' = [n \in Nodes |-> IF n \in pages THEN BeginUpdate(n).res ELSE ures[n]]
    /\ lblQ' = [n \in Nodes |-> IF n \in pages THEN BeginUpdate(n).q ELSE lblQ[n]]
    /\ result' = [n \in Nodes |-> IF n \in pages THEN BeginUpdate(n).result ELSE result[n]]
    /\ writes' = [n \in Nodes |-> IF n \in pages THEN writes[n] \o BeginUpdate(n).ws
                                  ELSE writes[n]]
    /\ UNCHANGED recVars
    /\ UNCHANGED <<rev, client, files, fmPageId, remote, nextNew, myAccountId, phase,
                   pages, cnode, answers, faults>>

\* R1: contentAttachments.getAttachments answers.
AttachmentsReturn(n) ==
    /\ upc[n] = "att"
    /\ \E o \in Outcomes :
        /\ faults' = Bump(o)
        /\ Answered(n, "getAttachments", o, TRUE)
        /\ IF o = "ok" THEN Move(n, Task("pipe", ures[n], NoQ, NoResult, <<>>))
           ELSE Move(n, Finished(PublishFileCatch(o)))
    /\ UNCHANGED recVars
    /\ UNCHANGED <<rev, client, files, fmPageId, remote, nextNew, myAccountId, phase,
                   pages, cnode>>

\* R1: executeADFProcessingPipeline answers; it may have uploaded an attachment.
PipelineReturns(n) ==
    /\ upc[n] = "pipe"
    /\ \E o \in Outcomes, uploaded \in BOOLEAN :
        /\ faults' = Bump(o)
        /\ Answered(n, "pipeline", o, TRUE)
        /\ LET up == IF uploaded
                     THEN <<Req("attachment", cnode[n].pageId, "", {})>> ELSE <<>>
               t == ContentStep(files[n], cnode[n],
                                [ures[n] EXCEPT !.imageResult = "updated"])
           IN  IF o = "ok" THEN Move(n, [t EXCEPT !.ws = up \o @])
               ELSE Move(n, [Finished(PublishFileCatch(o)) EXCEPT !.ws = up])
    /\ UNCHANGED recVars
    /\ UNCHANGED <<rev, client, files, fmPageId, remote, nextNew, myAccountId, phase,
                   pages, cnode>>

\* R2: v2.folders.updateFolder answers.
RenameReturns(n) ==
    /\ upc[n] = "rename"
    /\ \E o \in Outcomes :
        /\ faults' = Bump(o)
        /\ Answered(n, "updateFolder", o, Exists(cnode[n].pageId))
        /\ IF o = "ok" /\ Exists(cnode[n].pageId)
           THEN /\ remote' = [remote EXCEPT ![cnode[n].pageId] =
                                [@ EXCEPT !.title = files[n].pageTitle,
                                          !.version = @ + 1, !.by = Me]]
                /\ Move(n, Finished(Success([ures[n] EXCEPT !.contentResult = "updated"])))
           ELSE /\ remote' = remote
                /\ Move(n, Finished(PublishFileCatch(IF o = "ok" THEN "msg" ELSE o)))
    /\ UNCHANGED recVars
    /\ UNCHANGED <<rev, client, files, fmPageId, nextNew, myAccountId, phase, pages, cnode>>

\* content.updateContent answers; then updateLabels asks for the labels.
ContentReturns(n) ==
    /\ upc[n] = "content"
    /\ \E o \in Outcomes, detected \in (IF isV2Api THEN BOOLEAN ELSE {FALSE}) :
        /\ faults' = Bump(o)
        /\ LET req == OnTheWire(Last(writes[n]), detected)
           IN  /\ answers' = [answers EXCEPT ![n] =
                     Append(@, [call |-> "updateContent",
                                out |-> IF o # "ok" THEN o
                                        ELSE IF RemoteAcceptsUpdate(req) THEN "ok"
                                        ELSE "refused",
                                wire |-> req.version,
                                stored |-> remote[req.id].version])]
               /\ IF o = "ok" /\ RemoteAcceptsUpdate(req)
                  THEN /\ remote' = RemoteAfterUpdate(req)
                       /\ Move(n, Task("labels", ures[n], NoQ, NoResult, <<>>))
                  ELSE /\ remote' = remote
                       /\ Move(n, Finished(PublishFileCatch(IF o = "ok" THEN "msg" ELSE o)))
    /\ UNCHANGED recVars
    /\ UNCHANGED <<rev, client, files, fmPageId, nextNew, myAccountId, phase, pages, cnode>>

\* ------------------------------------------------------------------ labels

\* A diff that adds every tag again.
AllTags(tags, current) == tags
\* Labels the node wants and the remote lacks; labels the remote has and the
\* node does not want.
LabelsToAdd(tags, current) == {l \in tags : l \notin current}
LabelsToRemove(tags, current) == {l \in current : l \notin tags}

\* A label call failed.  R2's updateLabels catches it and records "error";
\* R1 lets it fail the node.
LabelFailure(res, e) ==
    IF rev = "R2" THEN Success([res EXCEPT !.labelResult = "error"])
    ELSE PublishFileCatch(e)

\* The next label call after the calls made so far: R2 adds first and then
\* removes one label per call; R1 removes first and adds last.
NextLabelStep(n, res, add, remove) ==
    IF rev = "R2" /\ add # {}
    THEN {Task("add", res, [add |-> add, remove |-> remove, cur |-> add], NoResult,
               <<Req("addLabels", cnode[n].pageId, "", add)>>)}
    ELSE IF remove # {}
    THEN {Task("remove", res, [add |-> add, remove |-> remove \ {l}, cur |-> {l}],
               NoResult, <<Req("removeLabel", cnode[n].pageId, "", {l})>>) :
          l \in remove}
    ELSE IF add # {}
    THEN {Task("add", res, [add |-> add, remove |-> {}, cur |-> add], NoResult,
               <<Req("addLabels", cnode[n].pageId, "", add)>>)}
    ELSE {Finished(Success(res))}

\* contentLabels.getLabelsForContent answers.
LabelsReturn(n) ==
    /\ upc[n] = "labels"
    /\ \E o \in Outcomes :
        /\ faults' = Bump(o)
        /\ answers' = [answers EXCEPT ![n] =
              Append(@, [call |-> "getLabels",
                         out |-> IF o # "ok" THEN o
                                 ELSE IF Exists(cnode[n].pageId) THEN "ok" ELSE "refused",
                         labels |-> IF Exists(cnode[n].pageId)
                                    THEN remote[cnode[n].pageId].labels ELSE {}])]
        /\ IF o = "ok" /\ Exists(cnode[n].pageId)
           THEN LET current == remote[cnode[n].pageId].labels
                    add == LabelsToAdd(files[n].tags, current)
                    remove == LabelsToRemove(files[n].tags, current)
                    res == IF add # {} \/ remove # {}
                           THEN [ures[n] EXCEPT !.labelResult = "updated"]
                           ELSE ures[n]
                IN  \E t \in NextLabelStep(n, res, add, remove) : Move(n, t)
           ELSE Move(n, Finished(LabelFailure(ures[n], IF o = "ok" THEN "msg" ELSE o)))
    /\ UNCHANGED recVars
    /\ UNCHANGED <<rev, client, files, fmPageId, remote, nextNew, myAccountId, phase,
                   pages, cnode>>

\* contentLabels.addLabelsToContent answers.  The client is taken to send the
\* labels of the request, as the interface says; what the Obsidian client
\* sends is followed in SpecLabels.
AddLabelsReturns(n) ==
    /\ upc[n] = "add"
    /\ \E o \in Outcomes :
        /\ faults' = Bump(o)
        /\ Answered(n, "addLabels", o, TRUE)
        /\ IF o = "ok"
           THEN /\ remote' = [remote EXCEPT ![cnode[n].pageId].labels = @ \cup lblQ[n].cur]
                /\ \E t \in NextLabelStep(n, ures[n], {}, lblQ[n].remove) : Move(n, t)
           ELSE /\ remote' = remote
                /\ Move(n, Finished(LabelFailure(ures[n], o)))
    /\ UNCHANGED recVars
    /\ UNCHANGED <<rev, client, files, fmPageId, nextNew, myAccountId, phase, pages, cnode>>

\* contentLabels.removeLabelFromContentUsingQueryParameter answers.
RemoveLabelReturns(n) ==
    /\ upc[n] = "remove"
    /\ \E o \in Outcomes :
        /\ faults' = Bump(o)
        /\ Answered(n, "removeLabel", o, TRUE)
        /\ IF o = "ok"
           THEN /\ remote' = [remote EXCEPT ![cnode[n].pageId].labels = @ \ lblQ[n].cur]
                /\ \E t \in NextLabelStep(n, ures[n],
                                          IF rev = "R2" THEN {} ELSE lblQ[n].add,
                                          lblQ[n].remove) : Move(n, t)
           ELSE /\ remote' = remote
                /\ Move(n, Finished(LabelFailure(ures[n], o)))
    /\ UNCHANGED recVars
    /\ UNCHANGED <<rev, client, files, fmPageId, nextNew, myAccountId, phase, pages, cnode>>

\* publish(): await Promise.all(adrFileTasks) settles.  It rejects if a task
\* rejected, and publish() rethrows; otherwise publish() returns the results.
PublishSettles ==
    /\ phase = "update"
    /\ \/ \A n \in pages : upc[n] = "done"
       \/ \E n \in pages : result[n].kind = "rejected"
    /\ phase' = IF \E n \in pages : result[n].kind = "rejected"
                THEN "rejected" ELSE "resolved"
    /\ UNCHANGED recVars
    /\ UNCHANGED <<rev, client, files, fmPageId, remote, nextNew, myAccountId, faults>>
    /\ UNCHANGED updVars

UpdateStep ==
    \/ StartUpdates
    \/ \E n \in Nodes : AttachmentsReturn(n)
    \/ \E n \in Nodes : PipelineReturns(n)
    \/ \E n \in Nodes : RenameReturns(n)
    \/ \E n \in Nodes : ContentReturns(n)
    \/ \E n \in Nodes : LabelsReturn(n)
    \/ \E n \in Nodes : AddLabelsReturns(n)
    \/ \E n \in Nodes : RemoveLabelReturns(n)
    \/ PublishSettles

\* ------------------------------------------------- the reconciler: a node's task

\* null, as a parent or boundary ID.
Null == "<null>"

\* A node's createFileStructureInConfluence task: where it is, the remote ID
\* it settled on, the parentPageId and topPageId it was called with, the
\* effective parent, the remote calls issued for the node, whether its remote
\* object was created in this run, the page IDs of the updateMarkdownValues
\* calls that have returned, what it threw, and the object its title search
\* answered with.
NoRec == [pc |-> "wait", rid |-> "", threaded |-> Null, eff |-> Null, top |-> Null,
          calls |-> <<>>, created |-> FALSE, umv |-> <<>>, err |-> "none",
          found |-> ""]
NoThrow == [step |-> "none", error |-> "none"]

Call(call, arg) == [call |-> call, arg |-> arg]

\* effectiveParentPageId.  R1: the file's own parentPageId when it is not
\* blank, else the threaded parent when it is not blank, else null.  R2: the
\* threaded parent as it is.
EffectiveParent(f, parentPageId) ==
    IF rev = "R2" THEN parentPageId
    ELSE IF NonBlank(f.parentPageId) THEN f.parentPageId
    ELSE IF parentPageId # Null /\ NonBlank(parentPageId) THEN parentPageId
    ELSE Null

\* topPageId || effectiveParentPageId.
OrElse(a, b) == IF a # Null /\ a # "" THEN a ELSE b

\* A reconciler that hands its own parent down instead.
ThreadedGrandparent(pageId, effectiveParent) == effectiveParent
\* The parent ID handed to every child of a resolved node.
ThreadedParent(pageId, effectiveParent) == pageId

\* createFileStructureInConfluence(node, parentPageId, topPageId, true) up to
\* its first await.  For a node without a file R1 throws "Missing file on
\* node"; R2 returns at once an empty node that has no children ("skipped").
StartNode(n, parentPageId, topPageId) ==
    LET f == files[n]
        eff == EffectiveParent(f, parentPageId)
        t == [NoRec EXCEPT !.threaded = parentPageId, !.eff = eff,
                           !.top = OrElse(topPageId, eff)]
    IN  IF f = NoFile
        THEN IF rev = "R1" THEN [t EXCEPT !.pc = "failed", !.err = "nofile"]
             ELSE [t EXCEPT !.pc = "skipped"]
        ELSE IF eff = Null THEN [t EXCEPT !.pc = "failed", !.err = "noparent"]
        ELSE IF UsesFolderEndpoints(f.contentType)
        THEN IF f.pageId # "" /\ hasV2Folders
             THEN [t EXCEPT !.pc = "getFolder",
                            !.calls = <<Call("getFolderById", f.pageId)>>]
             ELSE [t EXCEPT !.pc = "getSpace", !.calls = <<Call("getSpace", "")>>]
        ELSE IF f.pageId # ""
        THEN [t EXCEPT !.pc = "fetch", !.calls = <<Call("getContentById", f.pageId)>>]
        ELSE [t EXCEPT !.pc = "search", !.calls = <<Call("getContent", f.pageTitle)>>]

\* A publish() that swallows the error and goes on to the updates.
PublishSwallow(e) == [phase |-> "update", rejection |-> "none"]
\* publish()'s catch: it logs and throws the error on.
PublishCatch(e) == [phase |-> "rejected", rejection |-> e]

\* A prerequisite step of publish() throws e.
Throws(step, e) ==
    /\ phase' = PublishCatch(e).phase
    /\ rejection' = PublishCatch(e).rejection
    /\ threw' = [step |-> step, error |-> e]

\* flattenTree: the ancestor chain of a node, the pageId of every tree
\* ancestor from the root down.
Chain(n) ==
    IF Parent(n) = Root THEN <<files[Root].pageId>>
    ELSE Append(cnode[Parent(n)].ancestors, cnode[Parent(n)].pageId)

\* The pageId handed to updateMarkdownValues once the node's object is known.
MarkdownValuesFor(id) == id

\* The adaptor's updateMarkdownValues: the front matter of the note at the
\* file's path takes the page ID; a path that is not a note is left alone.
updateMarkdownValues(n, id) ==
    IF files[n].note THEN [fmPageId EXCEPT ![n] = id] ELSE fmPageId

\* A reconciler that maps over the children as soon as the node's remote ID
\* is known, while updateMarkdownValues is still out.
ChildrenStartEarly(pc) == pc \in {"umv", "done"}
\* The children are mapped over after ensurePageExists (or the folder branch)
\* has returned.
ChildrenStartAt(pc) == pc = "done"

\* The tasks after node n's task moved to t: when n is resolved, the task of
\* every child starts and runs to its first await.
RecAfter(n, t) ==
    [m \in Nodes |->
        IF m = n THEN t
        ELSE IF ChildrenStartAt(t.pc) /\ m \in Children(n) \cap tree /\ rec[m].pc = "wait"
             THEN StartNode(m, ThreadedParent(t.rid, t.eff), t.top)
        ELSE rec[m]]

\* A step of node n's task.  A task that throws rejects every enclosing
\* Promise.all at once, and with it ensureAllFilesExistInConfluence and
\* publish(); tasks already in flight go on.
RStep(n, t) ==
    /\ rec' = RecAfter(n, t)
    /\ cnode' = IF t.pc = "done"
                THEN [cnode EXCEPT ![n] = Reconciled(files[n].contentType, t.rid, Chain(n))]
                ELSE cnode
    /\ LET failed == {m \in Nodes : RecAfter(n, t)[m].pc = "failed" /\ rec[m].pc # "failed"}
       IN  IF failed # {} /\ phase = "reconcile"
           THEN LET m == CHOOSE x \in failed : \A y \in failed : x <= y
                IN  Throws("reconcile", RecAfter(n, t)[m].err)
           ELSE UNCHANGED <<phase, rejection, threw>>

Fails(n, e) == [rec[n] EXCEPT !.pc = "failed", !.err = e]
Goes(n, pc, call) == [rec[n] EXCEPT !.pc = pc, !.calls = Append(@, call)]

\* R2: v2.folders.getFolderById answers.  A folder that is there resolves the
\* node; any failure leads on to the creation of a new folder.
GetFolderReturns(n) ==
    /\ rec[n].pc = "getFolder"
    /\ \E o \in Outcomes :
        /\ faults' = Bump(o)
        /\ IF o = "ok" /\ Exists(files[n].pageId) /\ remote[files[n].pageId].type = "folder"
           THEN RStep(n, [rec[n] EXCEPT !.pc = "done", !.rid = files[n].pageId])
           ELSE RStep(n, Goes(n, "getSpace", Call("getSpace", "")))
    /\ UNCHANGED <<rev, client, files, fmPageId, remote, nextNew, myAccountId,
                   mode, publishFilter, auxVars, tree, psf, runs>>
    /\ UNCHANGED <<pages, upc, ures, lblQ, result, writes, answers>>

\* R2: space.getSpace answers; then v2.folders.createFolder is called, which a
\* client without the folder endpoints does not have.
GetSpaceReturns(n) ==
    /\ rec[n].pc = "getSpace"
    /\ \E o \in Outcomes :
        /\ faults' = Bump(o)
        /\ IF o # "ok" THEN RStep(n, Fails(n, "nospaceid"))
           ELSE IF ~hasV2Folders THEN RStep(n, Fails(n, "nofolders"))
           ELSE RStep(n, Goes(n, "createFolder", Call("createFolder", rec[n].eff)))
    /\ UNCHANGED <<rev, client, files, fmPageId, remote, nextNew, myAccountId,
                   mode, publishFilter, auxVars, tree, psf, runs>>
    /\ UNCHANGED <<pages, upc, ures, lblQ, result, writes, answers>>

\* The remote takes a create under a parent that exists, or under none.
RemoteAcceptsCreate(parent) == parent = "" \/ Exists(parent)
NewId == NewIds[nextNew + 1]

\* The objects a title search answers with.
FoundByTitle(f) ==
    {id \in AllIds : Exists(id) /\ remote[id].title = f.pageTitle
                     /\ remote[id].type = f.contentType}

\* V2FoldersApi.createFolder, first await: the space key is looked up for
\* the space ID.  A failure is logged and the folder is created without the
\* search for an existing one.
FolderSpaceReturns(n) ==
    /\ rec[n].pc = "createFolder"
    /\ \E o \in Outcomes :
        /\ faults' = Bump(o)
        /\ IF o = "ok"
           THEN RStep(n, Goes(n, "findFolder", Call("findFolderByTitle", files[n].pageTitle)))
           ELSE RStep(n, Goes(n, "postFolder", Call("postFolder", rec[n].eff)))
    /\ UNCHANGED <<rev, client, files, fmPageId, remote, nextNew, myAccountId,
                   mode, publishFilter, auxVars, tree, psf, runs>>
    /\ UNCHANGED <<pages, upc, ures, lblQ, result, writes, answers>>

\* V2FoldersApi.createFolder: findFolderByTitle answers; a failed search
\* counts as nothing found.  A folder of the title is taken over, after a
\* move when a parent is asked for and the folder has another; else the
\* folder is created.
FindFolderReturns(n) ==
    /\ rec[n].pc = "findFolder"
    /\ \E o \in Outcomes :
        /\ faults' = Bump(o)
        /\ IF o = "ok" /\ FoundByTitle(files[n]) # {}
           THEN \E id \in FoundByTitle(files[n]) :
                   IF NonBlank(rec[n].eff) /\ remote[id].parent # rec[n].eff
                   THEN RStep(n, [Goes(n, "moveFolder", Call("updateFolder", id))
                                   EXCEPT !.found = id])
                   ELSE RStep(n, [Goes(n, "umv", Call("updateMarkdownValues",
                                                      MarkdownValuesFor(id)))
                                   EXCEPT !.rid = id, !.found = id])
           ELSE RStep(n, Goes(n, "postFolder", Call("postFolder", rec[n].eff)))
    /\ UNCHANGED <<rev, client, files, fmPageId, remote, nextNew, myAccountId,
                   mode, publishFilter, auxVars, tree, psf, runs>>
    /\ UNCHANGED <<pages, upc, ures, lblQ, result, writes, answers>>

\* V2FoldersApi.createFolder: updateFolder (the folder is fetched and PUT with
\* the parent asked for) answers with the moved folder.  A failure is caught
\* with the failures of the search, and the folder is created.
MoveFolderReturns(n) ==
    /\ rec[n].pc = "moveFolder"
    /\ \E o \in Outcomes :
        /\ faults' = Bump(o)
        /\ IF o = "ok" /\ Exists(rec[n].found) /\ RemoteAcceptsCreate(rec[n].eff)
           THEN /\ remote' = [remote EXCEPT ![rec[n].found].parent = rec[n].eff,
                                            ![rec[n].found].version = @ + 1]
                /\ RStep(n, [Goes(n, "umv", Call("updateMarkdownValues",
                                                 MarkdownValuesFor(rec[n].found)))
                              EXCEPT !.rid = rec[n].found])
           ELSE /\ remote' = remote
                /\ RStep(n, Goes(n, "postFolder", Call("postFolder", rec[n].eff)))
    /\ UNCHANGED <<rev, client, files, fmPageId, nextNew, myAccountId, mode, publishFilter, auxVars, tree, psf, runs>>
    /\ UNCHANGED <<pages, upc, ures, lblQ, result, writes, answers>>

\* V2FoldersApi.createFolder: the POST of the new folder answers; the
\* reconciler goes on with updateMarkdownValues.
CreateFolderReturns(n) ==
    /\ rec[n].pc = "postFolder"
    /\ nextNew < Len(NewIds)
    /\ \E o \in Outcomes :
        /\ faults' = Bump(o)
        /\ IF o = "ok" /\ RemoteAcceptsCreate(rec[n].eff)
           THEN /\ remote' = [remote EXCEPT ![NewId] =
                                Obj("folder", files[n].pageTitle, "empty", 1, Me,
                                    rec[n].eff, {})]
                /\ nextNew' = nextNew + 1
                /\ RStep(n, [Goes(n, "umv", Call("updateMarkdownValues",
                                                 MarkdownValuesFor(NewId)))
                              EXCEPT !.rid = NewId, !.created = TRUE])
           ELSE /\ UNCHANGED <<remote, nextNew>>
                /\ RStep(n, Fails(n, IF o = "ok" THEN "msg" ELSE o))
    /\ UNCHANGED <<rev, client, files, fmPageId, myAccountId, mode, publishFilter, auxVars, tree, psf, runs>>
    /\ UNCHANGED <<pages, upc, ures, lblQ, result, writes, answers>>

\* ensurePageExists: content.getContentById for the remembered ID answers.
\* Found: the ID is written back.  Not found (404): the remembered ID is
\* cleared.  Any other failure is thrown on.
FetchReturns(n) ==
    /\ rec[n].pc = "fetch"
    /\ \E o \in Outcomes :
        /\ faults' = Bump(o)
        /\ IF o # "ok" THEN RStep(n, Fails(n, o))
           ELSE IF Exists(files[n].pageId)
           THEN RStep(n, [Goes(n, "umv", Call("updateMarkdownValues",
                                              MarkdownValuesFor(files[n].pageId)))
                           EXCEPT !.rid = files[n].pageId])
           ELSE RStep(n, Goes(n, "umvClear", Call("updateMarkdownValues", "")))
    /\ UNCHANGED <<rev, client, files, fmPageId, remote, nextNew, myAccountId,
                   mode, publishFilter, auxVars, tree, psf, runs>>
    /\ UNCHANGED <<pages, upc, ures, lblQ, result, writes, answers>>

\* ensurePageExists, in the catch of the fetch: updateMarkdownValues with
\* publish false and no page ID returns, and the 404 is thrown on.
UmvClearReturns(n) ==
    /\ rec[n].pc = "umvClear"
    /\ \E o \in Outcomes :
        /\ faults' = Bump(o)
        /\ fmPageId' = IF o = "ok" THEN updateMarkdownValues(n, "") ELSE fmPageId
        /\ RStep(n, [Fails(n, IF o = "ok" THEN "404" ELSE o)
                      EXCEPT !.umv = IF o = "ok" THEN Append(@, "") ELSE @])
    /\ UNCHANGED <<rev, client, files, remote, nextNew, myAccountId, mode, publishFilter, auxVars, tree, psf, runs>>
    /\ UNCHANGED <<pages, upc, ures, lblQ, result, writes, answers>>

\* A reconciler without the boundary check.
NeverOutsideBoundary(f, topPageId, id) == FALSE
\* The top-page boundary check on the object found by title.
OutsideBoundary(f, topPageId, id) ==
    /\ topPageId # Null /\ topPageId # ""
    /\ f.contentType = "page"
    /\ topPageId \notin SeqToSet(AncestorsOf(id))

\* ensurePageExists: content.getContent by title answers.
SearchReturns(n) ==
    /\ rec[n].pc = "search"
    /\ \E o \in Outcomes :
        /\ faults' = Bump(o)
        /\ IF o # "ok" THEN RStep(n, Fails(n, o))
           ELSE IF FoundByTitle(files[n]) # {}
           THEN \E id \in FoundByTitle(files[n]) :
                   IF OutsideBoundary(files[n], rec[n].top, id)
                   THEN RStep(n, [Fails(n, "boundary") EXCEPT !.found = id])
                   ELSE RStep(n, [Goes(n, "umv", Call("updateMarkdownValues",
                                                      MarkdownValuesFor(id)))
                                   EXCEPT !.rid = id, !.found = id])
           ELSE IF files[n].contentType = "page" /\ NonBlank(rec[n].eff)
           THEN RStep(n, Goes(n, "verify", Call("getContentById", rec[n].eff)))
           ELSE RStep(n, Goes(n, "create", Call("createContent", "")))
    /\ UNCHANGED <<rev, client, files, fmPageId, remote, nextNew, myAccountId,
                   mode, publishFilter, auxVars, tree, psf, runs>>
    /\ UNCHANGED <<pages, upc, ures, lblQ, result, writes, answers>>

\* ensurePageExists: the fetch that verifies the parent answers; a failure is
\* logged and the create goes ahead.
VerifyReturns(n) ==
    /\ rec[n].pc = "verify"
    /\ \E o \in Outcomes :
        /\ faults' = Bump(o)
        /\ RStep(n, Goes(n, "create", Call("createContent", rec[n].eff)))
    /\ UNCHANGED <<rev, client, files, fmPageId, remote, nextNew, myAccountId,
                   mode, publishFilter, auxVars, tree, psf, runs>>
    /\ UNCHANGED <<pages, upc, ures, lblQ, result, writes, answers>>

\* ensurePageExists: content.createContent answers with the blank page.
CreateReturns(n) ==
    /\ rec[n].pc = "create"
    /\ nextNew < Len(NewIds)
    /\ \E o \in Outcomes :
        /\ faults' = Bump(o)
        /\ LET parent == Last(rec[n].calls).arg
           IN  IF o = "ok" /\ RemoteAcceptsCreate(parent) /\ FoundByTitle(files[n]) = {}
               THEN /\ remote' = [remote EXCEPT ![NewId] =
                                    Obj(files[n].contentType, files[n].pageTitle, "blank",
                                        1, Me, parent, {})]
                    /\ nextNew' = nextNew + 1
                    /\ RStep(n, [Goes(n, "umv", Call("updateMarkdownValues",
                                                     MarkdownValuesFor(NewId)))
                                  EXCEPT !.rid = NewId, !.created = TRUE])
               ELSE /\ UNCHANGED <<remote, nextNew>>
                    /\ RStep(n, Fails(n, IF o = "ok" THEN "msg" ELSE o))
    /\ UNCHANGED <<rev, client, files, fmPageId, myAccountId, mode, publishFilter, auxVars, tree, psf, runs>>
    /\ UNCHANGED <<pages, upc, ures, lblQ, result, writes, answers>>

\* updateMarkdownValues(publish: true, pageId) returns: the node is resolved,
\* and its children start.
UmvReturns(n) ==
    /\ rec[n].pc = "umv"
    /\ \E o \in Outcomes :
        /\ faults' = Bump(o)
        /\ IF o = "ok"
           THEN /\ fmPageId' = updateMarkdownValues(n, Last(rec[n].calls).arg)
                /\ RStep(n, [rec[n] EXCEPT !.pc = "done",
                                           !.umv = Append(@, Last(rec[n].calls).arg)])
           ELSE /\ fmPageId' = fmPageId
                /\ RStep(n, Fails(n, o))
    /\ UNCHANGED <<rev, client, files, remote, nextNew, myAccountId, mode, publishFilter, auxVars, tree, psf, runs>>
    /\ UNCHANGED <<pages, upc, ures, lblQ, result, writes, answers>>

ReconcileStep ==
    \/ \E n \in Nodes : GetFolderReturns(n)
    \/ \E n \in Nodes : GetSpaceReturns(n)
    \/ \E n \in Nodes : FolderSpaceReturns(n)
    \/ \E n \in Nodes : FindFolderReturns(n)
    \/ \E n \in Nodes : MoveFolderReturns(n)
    \/ \E n \in Nodes : CreateFolderReturns(n)
    \/ \E n \in Nodes : FetchReturns(n)
    \/ \E n \in Nodes : UmvClearReturns(n)
    \/ \E n \in Nodes : SearchReturns(n)
    \/ \E n \in Nodes : VerifyReturns(n)
    \/ \E n \in Nodes : CreateReturns(n)
    \/ \E n \in Nodes : UmvReturns(n)

\* ------------------------------------------------------ publish(): the steps

\* settings.confluenceParentId.
GlobalParentPageId == TopId

AfterUser == IF mode = "legacy" THEN "space" ELSE "psf"

\* publish() is called.  The account ID is fetched once per Publisher.
PublishStart ==
    /\ phase = "idle"
    /\ phase' = IF myAccountId = "" THEN "user" ELSE AfterUser
    /\ UNCHANGED <<rev, client, files, fmPageId, remote, nextNew, myAccountId, faults,
                   mode, publishFilter, auxVars, tree, psf, runs, rec, rejection, threw>>
    /\ UNCHANGED updVars

\* users.getCurrentUser answers.
UserReturns ==
    /\ phase = "user"
    /\ \E o \in Outcomes :
        /\ faults' = Bump(o)
        /\ IF o = "ok"
           THEN /\ myAccountId' = Me
                /\ phase' = AfterUser
                /\ UNCHANGED <<rejection, threw>>
           ELSE /\ myAccountId' = myAccountId
                /\ Throws("user", o)
    /\ UNCHANGED <<rev, client, files, fmPageId, remote, nextNew, mode, publishFilter, auxVars, tree, psf, runs, rec>>
    /\ UNCHANGED updVars

\* Legacy mode: content.getContentById for the global parent page answers
\* with the page and its space.
SpaceReturns ==
    /\ phase = "space"
    /\ \E o \in Outcomes :
        /\ faults' = Bump(o)
        /\ IF o = "ok" /\ Exists(GlobalParentPageId)
           THEN phase' = "files" /\ UNCHANGED <<rejection, threw>>
           ELSE Throws("space", IF o = "ok" THEN "404" ELSE o)
    /\ UNCHANGED <<rev, client, files, fmPageId, remote, nextNew, myAccountId,
                   mode, publishFilter, auxVars, tree, psf, runs, rec>>
    /\ UNCHANGED updVars

\* Frontmatter mode, no parent page ID gave the space.  R2 throws; R1 falls
\* back to the global parent page.
NoCandidate ==
    IF rev = "R2" THEN Throws("space", "nospace")
    ELSE phase' = "global" /\ UNCHANGED <<rejection, threw>>

\* Frontmatter mode: findPSFsByFrontmatter answers with the parent page IDs;
\* a failure counts as none found.
PsfReturns ==
    /\ phase = "psf"
    /\ \E o \in Outcomes :
        /\ faults' = Bump(o)
        /\ IF o = "ok" /\ psf.found # <<>>
           THEN /\ phase' = "candidate"
                /\ psf' = [psf EXCEPT !.left = psf.found]
                /\ UNCHANGED <<rejection, threw>>
           ELSE NoCandidate /\ psf' = psf
    /\ UNCHANGED <<rev, client, files, fmPageId, remote, nextNew, myAccountId,
                   mode, publishFilter, auxVars, tree, runs, rec>>
    /\ UNCHANGED updVars

\* Frontmatter mode: content.getContentById for a parent page ID answers.  The
\* first one that is there gives the space; a failure moves on to the next.
CandidateReturns ==
    /\ phase = "candidate"
    /\ \E o \in Outcomes :
        /\ faults' = Bump(o)
        /\ IF o = "ok" /\ Exists(Head(psf.left))
           THEN phase' = "files" /\ UNCHANGED <<psf, rejection, threw>>
           ELSE /\ psf' = [psf EXCEPT !.left = Tail(@)]
                /\ IF Tail(psf.left) = <<>> THEN NoCandidate
                   ELSE UNCHANGED <<phase, rejection, threw>>
    /\ UNCHANGED <<rev, client, files, fmPageId, remote, nextNew, myAccountId,
                   mode, publishFilter, auxVars, tree, runs, rec>>
    /\ UNCHANGED updVars

\* R1, frontmatter mode: content.getContentById for the global parent page
\* answers; a failure is swallowed and the search for any content is next.
GlobalFallbackReturns ==
    /\ phase = "global"
    /\ \E o \in Outcomes :
        /\ faults' = Bump(o)
        /\ phase' = IF o = "ok" /\ Exists(GlobalParentPageId) THEN "files" ELSE "any"
    /\ UNCHANGED <<rev, client, files, fmPageId, remote, nextNew, myAccountId,
                   mode, publishFilter, auxVars, tree, psf, runs, rec, rejection, threw>>
    /\ UNCHANGED updVars

\* R1, frontmatter mode: content.getContent(limit 1) answers with the first
\* content there is; a failure, or no content, is thrown on in a new Error.
AnyContentReturns ==
    /\ phase = "any"
    /\ \E o \in Outcomes :
        /\ faults' = Bump(o)
        /\ IF o = "ok" /\ \E id \in AllIds : Exists(id)
           THEN phase' = "files" /\ UNCHANGED <<rejection, threw>>
           ELSE Throws("space", "nowhere")
    /\ UNCHANGED <<rev, client, files, fmPageId, remote, nextNew, myAccountId,
                   mode, publishFilter, auxVars, tree, psf, runs, rec>>
    /\ UNCHANGED updVars

\* The parentPageId and topPageId ensureAllFilesExistInConfluence is called
\* with: the global parent page in legacy mode, null in frontmatter mode.
RootParam == IF mode = "legacy" THEN GlobalParentPageId ELSE Null

\* getMarkdownFilesToUpload answers; the local tree is built and the
\* reconciler starts at the root, for which nothing is resolved: the task of
\* every child of the root starts and runs to its first await.
StartReconcile ==
    [m \in Nodes |->
        IF m \in Children(Root) \cap tree
        THEN StartNode(m, ThreadedParent(files[Root].pageId,
                                         EffectiveParent(files[Root], RootParam)),
                       OrElse(RootParam, EffectiveParent(files[Root], RootParam)))
        ELSE rec[m]]

FilesReturn ==
    /\ phase = "files"
    /\ \E o \in Outcomes :
        /\ faults' = Bump(o)
        /\ IF o # "ok" THEN Throws("files", o) /\ rec' = rec
           ELSE /\ rec' = StartReconcile
                /\ LET failed == {m \in Nodes : StartReconcile[m].pc = "failed"}
                   IN  IF failed # {}
                       THEN Throws("reconcile",
                                   StartReconcile[CHOOSE x \in failed :
                                                     \A y \in failed : x <= y].err)
                       ELSE phase' = "reconcile" /\ UNCHANGED <<rejection, threw>>
    /\ UNCHANGED <<rev, client, files, fmPageId, remote, nextNew, myAccountId,
                   mode, publishFilter, auxVars, tree, psf, runs>>
    /\ UNCHANGED updVars

\* R2: the node is below a node without a file, whose empty node has no
\* children: no task is started for it and it is in no list.
Dropped(n) == Parent(n) # Root /\ rec[Parent(n)].pc = "skipped"

\* file.absoluteFilePath of a listed node: every file has a path of its own,
\* the empty node of a node without a file has the empty path.
absoluteFilePath(n) == IF files[n] = NoFile THEN "" ELSE <<"p1", "p2", "p3">>[n]

\* flattenTree: every node of the remote tree below the root, the empty node
\* of a node without a file included.
ReconciledList == {n \in tree : ~Dropped(n)}

\* A publish() that ignores its publishFilter.
NoFilterPages(list) == list
\* publish(): with a publishFilter only the listed nodes of that path are
\* kept.
FilterPages(list) ==
    IF publishFilter # "" THEN {n \in list : absoluteFilePath(n) = publishFilter}
    ELSE list

\* ensureAllFilesExistInConfluence resolves with the list of flattenTree;
\* publish() filters it and goes on to the updates.
ReconcileSettles ==
    /\ phase = "reconcile"
    /\ \A n \in tree : rec[n].pc \in {"done", "skipped"} \/ Dropped(n)
    /\ pages' = FilterPages(ReconciledList)
    /\ cnode' = [n \in Nodes |->
                    IF n \in tree /\ rec[n].pc = "skipped"
                    THEN [NoNode EXCEPT !.ancestors = Chain(n)]
                    ELSE cnode[n]]
    /\ phase' = "update"
    /\ UNCHANGED <<rev, client, files, fmPageId, remote, nextNew, myAccountId, faults,
                   mode, publishFilter, auxVars, tree, psf, runs, rec, rejection, threw>>
    /\ UNCHANGED <<upc, ures, lblQ, result, writes, answers>>

PublishStep ==
    \/ PublishStart
    \/ UserReturns
    \/ SpaceReturns
    \/ PsfReturns
    \/ CandidateReturns
    \/ GlobalFallbackReturns
    \/ AnyContentReturns
    \/ FilesReturn
    \/ ReconcileSettles

\* ------------------------------------------------- after a reconcile: update

TopPage == Obj("page", "top", "d2", 1, Other, "", {})
ForeignPage == Obj("page", "elsewhere", "d2", 1, Other, "", {})
RemoteWith(o1, o2) ==
    [id \in AllIds |->
        CASE id = TopId -> TopPage
          [] id = ForeignId -> ForeignPage
          [] id = "e1" -> o1
          [] id = "e2" -> o2
          [] OTHER -> NoObj]

RootFile(pid) == File("page", "", "empty", {}, "", FALSE, pid)

\* The state publish() is in when the reconciler has resolved nodes 1 and 2 to
\* the remote objects "e1" and "e2" and the per-node updates are about to
\* start: f1, f2 are the files and o1, o2 the objects.
AfterReconcile(f1, o1, f2, o2) ==
    /\ files = [n \in Nodes \cup {Root} |->
                   CASE n = 1 -> f1 [] n = 2 -> f2 [] n = Root -> RootFile(TopId)
                     [] OTHER -> NoFile]
    /\ remote = RemoteWith(o1, o2)
    /\ fmPageId = [n \in Nodes |-> IF n \in {1, 2} THEN ExistingId(n) ELSE ""]
    /\ nextNew = 0
    /\ myAccountId = Me
    /\ phase = "update"
    /\ pages = {1, 2}
    /\ cnode = [n \in Nodes |->
                   CASE n = 1 -> Reconciled(f1.contentType, "e1", <<TopId>>)
                     [] n = 2 -> Reconciled(f2.contentType, "e2", <<TopId, "e1">>)
                     [] OTHER -> NoNode]
    /\ upc = [n \in Nodes |-> "idle"]
    /\ ures = [n \in Nodes |-> NoRes]
    /\ lblQ = [n \in Nodes |-> NoQ]
    /\ result = [n \in Nodes |-> NoResult]
    /\ writes = [n \in Nodes |-> <<>>]
    /\ answers = [n \in Nodes |-> <<>>]
    /\ faults = 0
    /\ mode = "legacy"
    /\ publishFilter = ""
    /\ tree = {1, 2}
    /\ psf = [found |-> <<>>, left |-> <<>>]
    /\ runs = <<>>
    /\ rec = [n \in Nodes |->
                 IF n \in {1, 2}
                 THEN [NoRec EXCEPT !.pc = "done", !.rid = ExistingId(n),
                                    !.threaded = IF n = 1 THEN TopId ELSE "e1",
                                    !.eff = IF n = 1 THEN TopId ELSE "e1", !.top = TopId]
                 ELSE NoRec]
    /\ rejection = "none"
    /\ threw = NoThrow

\* Guards, failures and labels: node 1 is a page, node 2 a page or a folder,
\* each last edited by this or another account.
GuardFiles1 == {File("page", "t1", "d1", {"a"}, "", FALSE, "e1")}
GuardObjs1 ==
    {Obj("page", "t1", body, v, by, TopId, ls) :
        body \in {"d1", "d2"}, v \in 1..MaxVersion, by \in {Me, Other},
        ls \in {{"a"}, {"b"}}}
GuardFiles2 == {File(ct, "t2", "d1", {"a"}, "", FALSE, "e2") : ct \in {"page", "folder"}}
GuardObjs2 ==
    {Obj(type, title, body, 1, by, "e1", ls) :
        type \in {"page", "folder"}, title \in {"t2", "t2x"}, body \in {"d1", "d2"},
        by \in {Me, Other, ""}, ls \in {{"a"}, {"b", "c"}}}

InitUpdate ==
    /\ AuxIdle
    /\ rev \in Revs
    /\ client \in {"v1", "v2"}
    /\ \E f1 \in GuardFiles1, o1 \in GuardObjs1, f2 \in GuardFiles2, o2 \in GuardObjs2 :
          AfterReconcile(f1, o1, f2, o2)

SpecUpdate == InitUpdate /\ [][UpdateStep]_vars

\* ------------------------------------------------------- C1: isolation

LabelCalls == {"getLabels", "addLabels", "removeLabel"}
WriteOps == {"updateContent", "updateFolder", "attachment", "addLabels", "removeLabel"}

\* The guards that stop a node's update before its first call.
GuardStops(n) ==
    \/ ForeignEditGuard(cnode[n].lastUpdatedBy)
    \/ ContentTypeGuard(files[n].contentType, cnode[n].exType)

\* The answers that make updatePageContent throw: any failed call, except
\* that R2 catches the failure of a label call inside updateLabels.
FatalAnswers(n) ==
    {i \in 1..Len(answers[n]) :
        /\ answers[n][i].out # "ok"
        /\ rev = "R1" \/ answers[n][i].call \notin LabelCalls}
OwnThrow(n) == GuardStops(n) \/ FatalAnswers(n) # {}

\* The value the node's own update threw.
OwnThrown(n) ==
    IF ForeignEditGuard(cnode[n].lastUpdatedBy) THEN "foreign"
    ELSE IF ContentTypeGuard(files[n].contentType, cnode[n].exType) THEN "convert"
    ELSE LET a == answers[n][CHOOSE i \in FatalAnswers(n) : TRUE].out
         IN  IF a = "refused" THEN "msg" ELSE a

ForeignEdited(n) ==
    /\ cnode[n].lastUpdatedBy # ""
    /\ cnode[n].lastUpdatedBy # myAccountId

\* C4: a node whose last editor is a non-empty account ID other than the
\* authenticated user's never has a remote write issued for it, and once its
\* update has started it has thrown: its task is over with a failure record.
C4_ForeignEditBlocksWrites ==
    \A n \in pages :
        ForeignEdited(n) =>
            /\ writes[n] = <<>>
            /\ upc[n] # "idle" =>
                  /\ upc[n] = "done"
                  /\ result[n].kind = "failure"
                  /\ result[n].reason = ReasonOf("foreign")

\* The run is over and node 2, last edited by another account and differing
\* from the remote in body and labels, ended as a failure without a write.
C4_Witness ==
    /\ phase = "resolved"
    /\ cnode[2].lastUpdatedBy = Other
    /\ ~adfEqual(files[2].contents, cnode[2].exContent)
    /\ remote[cnode[2].pageId].labels # files[2].tags
    /\ result[2].kind = "failure"
    /\ result[1].kind = "success"

\* ------------------------------------------ C9, C10: when the content is written

\* Body, title and parent of node 2 against the remote: node 2 is a page or a
\* blogpost last edited by this account; node 1 is a page whose labels differ
\* or a folder whose title differs.
DiffFiles1 == {File("page", "t1", "d1", {"a"}, "", FALSE, "e1"),
               File("folder", "t1", "d1", {}, "", FALSE, "e1")}
DiffObj1(f) ==
    IF f.contentType = "page" THEN Obj("page", "t1", "d1", 1, Me, TopId, {"b", "c"})
    ELSE Obj("folder", "t1x", "d1", 1, Me, TopId, {})
DiffFiles2 ==
    {File(ct, "t2", "d1", {"a"}, ppid, dc, "e2") :
        ct \in {"page", "blogpost"}, ppid \in {"", ForeignId}, dc \in BOOLEAN}
DiffObjs2(f) ==
    {Obj(f.contentType, title, body, v, Me, parent, {"a"}) :
        title \in {"t2", "t2x"}, body \in {"d1", "d1m", "d2"}, v \in 1..MaxVersion,
        parent \in IF f.contentType = "blogpost" THEN {""} ELSE {"e1", TopId}}

InitContent ==
    /\ AuxIdle
    /\ rev \in Revs
    /\ client \in {"v1", "v2"}
    /\ \E f1 \in DiffFiles1, f2 \in DiffFiles2 :
          \E o2 \in DiffObjs2(f2) : AfterReconcile(f1, DiffObj1(f1), f2, o2)

SpecContent == InitContent /\ [][UpdateStep]_vars

CountOf(op, ws) == Cardinality({i \in 1..Len(ws) : ws[i].op = op})

\* The rendered body as the updater compares it.
Rendered(n) == IF rev = "R1" THEN Pipeline(files[n].contents) ELSE files[n].contents
BodyEqual(n) == adfEqual(Rendered(n), cnode[n].exContent)
TitleEqual(n) == files[n].pageTitle = cnode[n].exTitle
\* The ancestry the updater computes for the node; where it computes none
\* (R1: a blogpost, a pinned page) the existing one stands.
ComputedAncestry(n) ==
    IF rev = "R1"
    THEN IF SkipsAncestorsR1(files[n]) THEN cnode[n].exAncestors
         ELSE NewAncestorsR1(cnode[n].ancestors)
    ELSE IF SendsAncestorsR2(files[n], cnode[n]) THEN AncestorsR2(files[n], cnode[n])
         ELSE cnode[n].exAncestors
AncestryEqual(n) == ComputedAncestry(n) = cnode[n].exAncestors

\* C9: a page or blogpost node that passes the guards and differs from the
\* remote in body, title or computed parent gets exactly one content update
\* call, and its finished update reports contentResult "updated".
C9_UpdateWhenAnyDiffers ==
    \A n \in pages :
        /\ CountOf("updateContent", writes[n]) <= 1
        /\ (/\ files[n].contentType \in {"page", "blogpost"}
            /\ ~GuardStops(n)
            /\ ~BodyEqual(n) \/ ~TitleEqual(n) \/ ~AncestryEqual(n)
            /\ result[n].kind = "success")
           => /\ CountOf("updateContent", writes[n]) = 1
              /\ result[n].upload.contentResult = "updated"

\* C10: a node whose rendered body, title and computed ancestry all equal the
\* remote's never has a content update call issued for it, and its finished
\* update reports contentResult "same".
C10_NoUpdateWhenAllEqual ==
    \A n \in pages :
        (BodyEqual(n) /\ TitleEqual(n) /\ AncestryEqual(n))
        => /\ CountOf("updateContent", writes[n]) = 0
           /\ CountOf("updateFolder", writes[n]) = 0
           /\ result[n].kind = "success" => result[n].upload.contentResult = "same"

\* Node 2 passed the guards with body, title and ancestry equal to the
\* remote's, and its update finished.
C10_Witness ==
    /\ phase = "resolved"
    /\ files[2].contents = "d1" /\ cnode[2].exContent = "d1"
    /\ TitleEqual(2) /\ AncestryEqual(2)
    /\ files[2].contentType = "page" /\ ~files[2].dontChange
    /\ result[2].kind = "success"
    /\ result[2].upload.contentResult = "same"

\* ------------------------------------------------------- before a publish()

\* The state in which publish() is called on a new Publisher: the files fs as
\* they were loaded, the remote rm, the tree tr, the mode md and the parent
\* page IDs ps the adaptor will discover.
BeforePublish(fs, rm, tr, md, ps) ==
    /\ files = fs
    /\ remote = rm
    /\ tree = tr
    /\ mode = md
    /\ psf = [found |-> ps, left |-> <<>>]
    /\ runs = <<>>
    /\ fmPageId = [n \in Nodes |-> fs[n].pageId]
    /\ nextNew = 0
    /\ myAccountId = ""
    /\ phase = "idle"
    /\ pages = {}
    /\ cnode = [n \in Nodes |-> NoNode]
    /\ upc = [n \in Nodes |-> "idle"]
    /\ ures = [n \in Nodes |-> NoRes]
    /\ lblQ = [n \in Nodes |-> NoQ]
    /\ result = [n \in Nodes |-> NoResult]
    /\ writes = [n \in Nodes |-> <<>>]
    /\ answers = [n \in Nodes |-> <<>>]
    /\ faults = 0
    /\ rec = [n \in Nodes |-> NoRec]
    /\ rejection = "none"
    /\ threw = NoThrow

\* How a node stands before the run: never published ("new"), published and
\* remembered ("known"), remembered but deleted on the remote ("gone"), not
\* remembered while an object of its title is in the tree of the top page
\* ("title") or outside of it ("outside").
Standings == {"new", "known", "gone", "title", "outside"}
TitleOf(n) == IF n = 1 THEN "t1" ELSE IF n = 2 THEN "t2" ELSE "t3"

FileIn(n, standing, ct, ppid) ==
    File(ct, TitleOf(n), "d1", {"a"}, ppid, FALSE,
         IF standing \in {"known", "gone"} THEN ExistingId(n) ELSE "")
ObjIn(n, standing, ct) ==
    IF standing \in {"new", "gone"} THEN NoObj
    ELSE Obj(ct, TitleOf(n), "d1", 1, Me,
             IF standing = "outside" THEN ForeignId ELSE TopId, {"a"})

\* The remote with the objects o of the nodes.
RemoteOf(o) ==
    [id \in AllIds |->
        CASE id = TopId -> TopPage
          [] id = ForeignId -> ForeignPage
          [] id = "e1" -> o[1]
          [] id = "e2" -> o[2]
          [] id = "e3" -> o[3]
          [] OTHER -> NoObj]

\* The parent page ID a file below the root declares: none in legacy mode,
\* the top page in frontmatter mode.
DeclaredParent(n, md) == IF md = "frontmatter" /\ Parent(n) = Root THEN TopId ELSE ""

\* Node 3 may declare the known folder of node 1 as its parent folder.
ParentFolders(st1, ct1, tr) ==
    IF 3 \in tr /\ st1 = "known" /\ ct1 = "folder" THEN {"", ExistingId(1)} ELSE {""}

\* Two notes of the vault may carry the same title, or, one being a copy of
\* the other, the same remembered page ID: node 2 (below node 1) or node 3
\* (beside node 1) has the title of node 1, or node 3 has the page ID of the
\* known node 1.
Twins(md, rootPid, st1, st2, ct1, ct2, tr) ==
    IF md = "legacy" /\ rootPid = TopId /\ ct1 = "page" /\ ct2 = "page"
       /\ st2 = "new" /\ tr = {1, 2, 3} /\ st1 \in {"new", "known"}
    THEN {"none", "title2", "title3"} \cup (IF st1 = "known" THEN {"id3"} ELSE {})
    ELSE {"none"}
TwinOf(f, n, twin) ==
    IF (n = 2 /\ twin = "title2") \/ (n = 3 /\ twin = "title3")
    THEN [f EXCEPT !.pageTitle = TitleOf(1)]
    ELSE IF n = 3 /\ twin = "id3" THEN [f EXCEPT !.pageId = ExistingId(1)]
    ELSE f

Scenario(md, ps, rootPid, st, ct, tr, pf, twin) ==
    BeforePublish(
        [n \in Nodes \cup {Root} |->
            IF n = Root THEN RootFile(rootPid)
            ELSE [TwinOf(FileIn(n, st[n], ct[n], DeclaredParent(n, md)), n, twin)
                    EXCEPT !.parentFolderId = IF n = 3 THEN pf ELSE ""]],
        RemoteOf([n \in Nodes |-> ObjIn(n, st[n], ct[n])]),
        tr, md, ps)

InitReconcile ==
    /\ AuxIdle
    /\ rev \in Revs
    /\ client \in Clients
    /\ publishFilter = ""
    /\ \E md \in {"legacy", "frontmatter"}, rootPid \in {TopId, ""},
          st1 \in Standings, st2 \in Standings,
          ct1 \in {"page", "folder"}, ct2 \in {"page", "blogpost"},
          tr \in {{1, 2}, {1, 2, 3}} :
          \E ps \in (IF md = "legacy" THEN {<<>>}
                     ELSE {<<>>, <<TopId>>, <<"e3", TopId>>}),
             pf \in ParentFolders(st1, ct1, tr),
             twin \in Twins(md, rootPid, st1, st2, ct1, ct2, tr) :
              Scenario(md, ps, rootPid,
                       [n \in Nodes |-> IF n = 1 THEN st1 ELSE IF n = 2 THEN st2 ELSE "new"],
                       [n \in Nodes |-> IF n = 1 THEN ct1 ELSE IF n = 2 THEN ct2 ELSE "page"],
                       tr, pf, twin)

ReconcileNext == PublishStep \/ ReconcileStep
SpecReconcile == InitReconcile /\ [][ReconcileNext]_vars

\* ------------------------------------------------ C2, C3: parent before child

RemoteCalls(n) ==
    {i \in 1..Len(rec[n].calls) : rec[n].calls[i].call # "updateMarkdownValues"}
CreateCalls(n) ==
    {i \in 1..Len(rec[n].calls) : rec[n].calls[i].call \in {"createContent", "postFolder"}}
UmvCalls(n) ==
    {i \in 1..Len(rec[n].calls) : rec[n].calls[i].call = "updateMarkdownValues"}

\* C2: when the remote object of a node without a remembered ID was created
\* in this run and a remote call has been issued for a child of the node, an
\* updateMarkdownValues call for the node has returned and the last one
\* carried the ID of the created object.
C2_IdWrittenBackBeforeChildren ==
    \A n \in tree : \A c \in Children(n) \cap tree :
        (rec[n].created /\ files[n].pageId = "" /\ RemoteCalls(c) # {})
        => /\ rec[n].umv # <<>>
           /\ Last(rec[n].umv) = rec[n].rid
           /\ Exists(rec[n].rid)
           /\ rec[n].rid \notin {ExistingId(m) : m \in Nodes}

\* Node 1, never published, was created and its child's reconciliation has
\* issued a remote call.
C2_Witness ==
    /\ files[1].pageId = "" /\ rec[1].created
    /\ rec[1].umv = <<rec[1].rid>>
    /\ 2 \in tree /\ RemoteCalls(2) # {}

\* C3: once a remote call has been issued (or the task has started) for a child
\* of a node below the root, the node's own task has resolved the node to an
\* existing remote object, and the child's task was started with that
\* object's ID as its threaded parent.
C3_ChildAfterParentWithItsId ==
    \A n \in tree : \A c \in Children(n) \cap tree :
        (rec[c].pc # "wait" \/ RemoteCalls(c) # {})
        => /\ rec[n].pc = "done"
           /\ cnode[n].pageId = rec[n].rid
           /\ Exists(rec[n].rid)
           /\ rec[c].threaded = rec[n].rid

\* Node 1 was found by its remembered ID and its child, started with that ID
\* as parent, has created its page under it.
C3_Witness ==
    /\ rec[1].pc = "done" /\ rec[1].rid = "e1"
    /\ 2 \in tree /\ rec[2].created /\ rec[2].threaded = "e1"
    /\ remote[rec[2].rid].parent = "e1"

\* ------------------------------------------------------- C5: the boundary

\* The title search of node n, a page, was answered with an object outside
\* the tree of the boundary.
FoundOutside(n) ==
    /\ rec[n].found # ""
    /\ remote[rec[n].found].type = "page"
    /\ rec[n].top # Null /\ rec[n].top # ""
    /\ rec[n].top \notin SeqToSet(AncestorsOf(rec[n].found))

\* C5: when a boundary is set and the title search of a page node answered
\* with a page whose ancestors lack the boundary ID, the node's
\* reconciliation has thrown, and no create call, no updateMarkdownValues call
\* and no write of the page ID has been made for the node.
C5_OutsideBoundaryThrowsBeforeWrites ==
    \A n \in tree :
        FoundOutside(n)
        => /\ rec[n].pc = "failed" /\ rec[n].err = "boundary"
           /\ CreateCalls(n) = {} /\ UmvCalls(n) = {}
           /\ rec[n].umv = <<>>
           /\ fmPageId[n] = files[n].pageId
           /\ ~rec[n].created

\* Node 2's title search found the page of its title under a foreign page,
\* and publish() rejected with the boundary error.
C5_Witness ==
    /\ FoundOutside(2)
    /\ rec[2].err = "boundary"
    /\ phase = "rejected" /\ rejection = "boundary"
    /\ rec[1].pc = "done"

\* ------------------------------------------------- C8: a remembered ID is gone

\* C8: when the fetch by the remembered ID of a page or blogpost node was
\* answered 404 and the remembered ID has been cleared, the node's task goes
\* on with the title search: it is at the search or beyond, and has not
\* failed.
C8_NotFoundFallsThroughToSearch ==
    \A n \in tree :
        (/\ files[n].contentType \in {"page", "blogpost"}
         /\ files[n].pageId # ""
         /\ rec[n].umv # <<>> /\ rec[n].umv[1] = "")
        => rec[n].pc \in {"search", "verify", "create", "umv", "done"}

\* --------------------------------------------- publish(), and publish() again

HomePage == Obj("page", "home", "d2", 1, Other, "", {})

\* The remote with the objects o of the nodes and the top page below the page
\* home ("" when the top page has no parent).
RemoteUnder(home, o) ==
    [RemoteOf(o) EXCEPT ![HomeId] = HomePage, ![TopId] = [TopPage EXCEPT !.parent = home]]

\* publish() is called again on the same Publisher after it returned or
\* threw and every reconciler task still in flight has settled: the files are
\* loaded anew, with the page IDs their front matter holds by now.
PublishAgain ==
    /\ phase \in {"resolved", "rejected"}
    /\ \A n \in Nodes : rec[n].pc \in {"wait", "done", "skipped", "failed"}
    /\ runs = <<>>
    /\ runs' = <<[result |-> result, faults |-> faults, rec |-> rec, threw |-> threw]>>
    /\ files' = [n \in DOMAIN files |->
                    IF n \in tree THEN [files[n] EXCEPT !.pageId = fmPageId[n]]
                    ELSE files[n]]
    /\ phase' = "idle"
    /\ pages' = {}
    /\ cnode' = [n \in Nodes |-> NoNode]
    /\ upc' = [n \in Nodes |-> "idle"]
    /\ ures' = [n \in Nodes |-> NoRes]
    /\ lblQ' = [n \in Nodes |-> NoQ]
    /\ result' = [n \in Nodes |-> NoResult]
    /\ writes' = [n \in Nodes |-> <<>>]
    /\ answers' = [n \in Nodes |-> <<>>]
    /\ rec' = [n \in Nodes |-> NoRec]
    /\ rejection' = "none"
    /\ threw' = NoThrow
    /\ UNCHANGED <<rev, client, fmPageId, remote, nextNew, myAccountId, faults,
                   mode, publishFilter, auxVars, tree, psf>>

\* How node 1 stands and what it is; node 2 is a page, new or known.  Node 1
\* may be a tree node without a file; in legacy mode a folder not remembered
\* while a folder of its title lies below another page ("moved"), and in
\* frontmatter mode a directory without a folder note ("made").
Node1Cases(md) ==
    {<<"new", "page">>, <<"new", "folder">>, <<"known", "page">>,
     <<"known", "folder">>, <<"gone", "page">>, <<"none", "page">>}
    \cup (IF md = "frontmatter" THEN {<<"made", "folder">>} ELSE {<<"moved", "folder">>})

\* A known object whose labels differ from the file's; a known folder has
\* been renamed locally.
KnownObj(n, ct, parent) ==
    Obj(ct, IF ct = "folder" THEN "t1x" ELSE TitleOf(n), "d1", 1, Me, parent, {"b"})

\* The paths publish() is called with: none; and, in legacy mode for a tree
\* whose node 1 is a page still to be created, the path of either node.
Filters(c1, md) ==
    IF c1 = <<"new", "page">> /\ md = "legacy"
    THEN {"", "p1", "p2"}
    ELSE {""}

\* The parent page ID node 2's file carries.  In frontmatter mode the Obsidian
\* adaptor writes the parent page ID of the publish root into every file of
\* the root that declares none; another adaptor leaves the file as it is.
\* Node 1 is then the folder note of a root that was found, a known folder.
StampedParents(c1, md, ps) ==
    IF md = "frontmatter" /\ c1 = <<"known", "folder">> /\ ps # <<>>
    THEN {"", TopId}
    ELSE {""}

\* The parent of the top page: none or the space's home page in a legacy
\* run, whose root is the top page; none in a frontmatter run.
Homes(md) == IF md = "legacy" THEN {"", HomeId} ELSE {""}

Init ==
    /\ AuxIdle
    /\ rev \in Revs
    /\ client \in {"v1", "v2"}
    /\ \E md \in {"legacy", "frontmatter"}, st2 \in {"new", "known"} :
      \E ps \in (IF md = "legacy" THEN {<<>>} ELSE {<<>>, <<"e3", TopId>>}),
         c1 \in Node1Cases(md), home \in Homes(md) :
       \E stamp \in StampedParents(c1, md, ps) :
        /\ publishFilter \in Filters(c1, md)
        /\ BeforePublish(
              [n \in Nodes \cup {Root} |->
                  CASE n = Root -> RootFile(IF md = "legacy" THEN TopId ELSE "")
                    [] n = 1 -> IF c1[1] = "none" THEN NoFile
                                ELSE IF c1[1] = "made"
                                THEN createFolderFile(TitleOf(1), DeclaredParent(1, md))
                                ELSE FileIn(1, c1[1], c1[2], DeclaredParent(1, md))
                    [] n = 2 -> FileIn(2, st2, "page", stamp)
                    [] OTHER -> FileIn(n, "new", "page", "")],
              RemoteUnder(home,
                  [n \in Nodes |->
                      CASE n = 1 /\ c1[1] = "known" -> KnownObj(1, c1[2], TopId)
                        [] n = 1 /\ c1[1] = "moved" ->
                              Obj("folder", TitleOf(1), "d1", 1, Me, ForeignId, {"a"})
                        [] n = 2 /\ st2 = "known" ->
                              KnownObj(2, "page", IF c1[1] = "known" THEN "e1" ELSE TopId)
                        [] OTHER -> NoObj]),
              {1, 2}, md, ps)

Next == PublishStep \/ ReconcileStep \/ UpdateStep \/ PublishAgain

Spec == Init /\ [][Next]_vars

\* ------------------------------------------- C7: a prerequisite step throws

\* C7: when resolving the current user, resolving the space, loading the
\* files or reconciling the tree has thrown, publish() has rejected with the
\* thrown error and no per-node update has been started: no node is in its
\* update, no request has been issued and no answer received.
C7_PrerequisiteFailureAborts ==
    threw.step # "none" =>
        /\ phase = "rejected"
        /\ rejection = threw.error
        /\ pages = {}
        /\ \A n \in Nodes :
            /\ upc[n] = "idle"
            /\ writes[n] = <<>>
            /\ answers[n] = <<>>
            /\ result[n] = NoResult

\* The reconciler threw after one node's page had been created: publish()
\* rejected with the error and no update was started.
C7_Witness ==
    /\ threw.step = "reconcile"
    /\ threw.error = "msg"
    /\ phase = "rejected" /\ rejection = "msg"
    /\ rec[1].created /\ rec[1].pc = "done"
    /\ rec[2].pc = "failed"
    /\ \A n \in Nodes : upc[n] = "idle" /\ writes[n] = <<>>

\* --------------------------------------------------- C6: running twice

\* The first run resolved every node with a success record and no call
\* failed in either run.
CleanRuns ==
    /\ Len(runs) = 1
    /\ faults = 0
    /\ \A n \in tree : runs[1].result[n].kind = "success"

\* C6: in a second run that follows a run in which every node succeeded,
\* with no call failing, no create call and no content update call is issued,
\* publish() does not reject, and when it resolves every node's record is a
\* success with contentResult "same" and labelResult "same".
C6_SecondRunChangesNothing ==
    CleanRuns =>
        /\ phase # "rejected"
        /\ \A n \in tree :
            /\ CreateCalls(n) = {}
            /\ CountOf("updateContent", writes[n]) = 0
        /\ phase = "resolved" =>
              \A n \in tree :
                  /\ result[n].kind = "success"
                  /\ result[n].upload.contentResult = "same"
                  /\ result[n].upload.labelResult = "same"

\* ------------------------------------------- C11: the version of an update

\* The content update requests of node n that reached the remote.  No one
\* else writes the object between the reconciler's fetch and the update, so
\* the version stored on the remote when the request arrives is the version
\* the reconciler observed.
ReachedRemote(n) ==
    {i \in 1..Len(answers[n]) :
        /\ answers[n][i].call = "updateContent"
        /\ answers[n][i].out \in {"ok", "refused"}}

\* C11: every content update request that reaches the remote carries the
\* version the reconciler observed for the node plus one, whichever endpoint
\* the client uses.
C11_UpdateCarriesNextVersion ==
    \A n \in pages : \A i \in ReachedRemote(n) :
        answers[n][i].wire = answers[n][i].stored + 1

\* ------------------------------------------------------- C12: label diffing

\* The label sets the label fetch of node n answered with (at most one).
FetchedLabels(n) ==
    {answers[n][i].labels : i \in {j \in 1..Len(answers[n]) :
        answers[n][j].call = "getLabels" /\ answers[n][j].out = "ok"}}
RequestsOf(op, n) == {i \in 1..Len(writes[n]) : writes[n][i].op = op}
\* No label call of node n has failed.
NoLabelFailure(n) ==
    \A i \in 1..Len(answers[n]) :
        answers[n][i].call \in LabelCalls => answers[n][i].out = "ok"

C13_LabelFailureIsSoft ==
    \A n \in pages :
        (upc[n] = "done" /\ ~NoLabelFailure(n)) =>
            /\ result[n].kind = "success"
            /\ result[n].upload.labelResult = "error"
            /\ result[n].upload.contentResult = "updated"
                  <=> RequestsOf("updateContent", n) \cup RequestsOf("updateFolder", n) # {}

\* -------------------------------------------- C14: the form of a result record

\* A record has successfulUploadResult exactly when publishFile returned after
\* updatePageContent resolved; it has a reason when the property holds a
\* value other than undefined.
HasUploadResult(r) == r.kind = "success"
HasReason(r) == r.reason # Undefined

\* C14: every result record publish() returns has exactly one of
\* successfulUploadResult and reason, whatever the node's update threw.
C14_ExactlyOneOfResultAndReason ==
    phase = "resolved" =>
        \A n \in pages : HasUploadResult(result[n]) # HasReason(result[n])

\* --------------------------------- C15: no second create for a resolved node

\* The earlier run resolved node n: its task came to its end with the remote
\* object's ID.
ResolvedBefore(n) == Len(runs) = 1 /\ runs[1].rec[n].pc = "done"

\* C15: in a run that follows a run in which a node's remote object was
\* resolved, whether that run returned or threw at another node, no create
\* call is issued for the node, be it a page, a folder or a folder made up
\* for a directory.
C15_NoCreateAfterResolved ==
    \A n \in tree : ResolvedBefore(n) => CreateCalls(n) = {}

\* ------------------------------------------- C16: a node without any parent

\* Node n's task has started and neither the file's own parentPageId nor the
\* parent handed down by the caller is a non-blank ID.
NoParentFor(n) ==
    /\ rec[n].pc # "wait"
    /\ ~NonBlank(files[n].parentPageId)
    /\ rec[n].threaded = Null \/ ~NonBlank(rec[n].threaded)

\* C16: a node for which no non-blank parent ID is to be had has thrown "No
\* parent page ID defined", and no create call has been issued and no remote
\* object created for it or for a child of it.
C16_NoParentThrowsBeforeCreate ==
    \A n \in tree :
        NoParentFor(n) =>
            /\ rec[n].pc = "failed" /\ rec[n].err = "noparent"
            /\ \A d \in {n} \cup (Children(n) \cap tree) :
                  CreateCalls(d) = {} /\ ~rec[d].created

\* ------------------------------------------------ C17: a node without a file

\* C17: a tree node without a file whose task has started is not published
\* (no remote call, no request, no place in the list of pages, no result
\* record), and the task of every child of it has started with the parent
\* that was handed to the node itself.
C17_FilelessNodePassesThrough ==
    \A n \in tree :
        files[n] = NoFile /\ rec[n].pc # "wait" =>
            /\ rec[n].calls = <<>> /\ writes[n] = <<>>
            /\ n \notin pages /\ result[n] = NoResult
            /\ \A c \in Children(n) \cap tree :
                  rec[c].pc # "wait" /\ rec[c].threaded = rec[n].threaded

\* ----------------------------------------------- C18: the effective parent

\* No parent: null or the blank ID.
Blank(id) == id = Null \/ ~NonBlank(id)

\* The parent the file declares or, failing that, the parent handed down.
DeclaredOrThreaded(n) ==
    IF NonBlank(files[n].parentFolderId) THEN files[n].parentFolderId
    ELSE IF NonBlank(files[n].parentPageId) THEN files[n].parentPageId
    ELSE rec[n].threaded

\* C18: the effective parent of a node whose task has started is the file's
\* parentFolderId when set, else its parentPageId when set, else the parent
\* handed down by the caller (no parent at all counting as one value).
C18_EffectiveParentPrecedence ==
    \A n \in tree :
        rec[n].pc # "wait" /\ files[n] # NoFile =>
            \/ rec[n].eff = DeclaredOrThreaded(n)
            \/ Blank(rec[n].eff) /\ Blank(DeclaredOrThreaded(n))

\* ------------------------------------------------ C19: content-type guard

\* The remote object node n was resolved to is of another type than the file,
\* and the node is not a folder on the v2 API.
TypeDiffers(n) ==
    /\ cnode[n].exType # files[n].contentType
    /\ ~(files[n].contentType = "folder" /\ isV2Api)

ExistingParent(n) ==
    IF cnode[n].exAncestors = <<>> THEN <<>>
    ELSE <<Last(cnode[n].exAncestors)>>

\* C20: every content update request issued for a node whose file sets
\* dontChangeParentPageId carries no ancestors or exactly the parent the
\* remote object already has, and the remote object keeps that parent.
C20_PinnedParentUnchanged ==
    \A n \in pages :
        files[n].dontChange =>
            /\ \A i \in 1..Len(writes[n]) :
                  writes[n][i].op = "updateContent" /\ writes[n][i].hasAncestors =>
                      writes[n][i].ancestors = ExistingParent(n)
            /\ ExistingParent(n) =
                  (IF remote[cnode[n].pageId].parent = "" THEN <<>>
                   ELSE <<remote[cnode[n].pageId].parent>>)

\* ------------------------------------------- C21: a blogpost has no parent

\* C21: no content update request issued for a blogpost node carries
\* ancestors.
C21_BlogpostUpdateHasNoAncestors ==
    \A n \in pages :
        files[n].contentType = "blogpost" =>
            \A i \in 1..Len(writes[n]) :
                writes[n][i].op = "updateContent" => ~writes[n][i].hasAncestors

\* ------------------------------------------- C22: a folder on the v2 API

FolderOnV2(n) == files[n].contentType = "folder" /\ isV2Api

\* The update of node n is over, with a success record and no failed call.
FinishedClean(n) ==
    /\ upc[n] = "done" /\ result[n].kind = "success"
    /\ \A i \in 1..Len(answers[n]) : answers[n][i].out = "ok"

\* C22: for a folder node on the v2 API no content update request is issued
\* and a rename request is issued only when the title differs; and when the
\* update has finished without a failed call, the rename was issued if the
\* title differs, the labels were fetched, the missing tags were added and
\* the labels that are no tags were removed.
C22_FolderRenamedAndLabelled ==
    \A n \in pages :
        FolderOnV2(n) =>
            /\ RequestsOf("updateContent", n) = {}
            /\ RequestsOf("updateFolder", n) # {} => files[n].pageTitle # cnode[n].exTitle
            /\ FinishedClean(n) =>
                  /\ files[n].pageTitle # cnode[n].exTitle => RequestsOf("updateFolder", n) # {}
                  /\ FetchedLabels(n) # {}
                  /\ \A C \in FetchedLabels(n) :
                        /\ files[n].tags \ C # {} =>
                              \E i \in RequestsOf("addLabels", n) :
                                  writes[n][i].labels = files[n].tags \ C
                        /\ \A l \in C \ files[n].tags :
                              \E i \in RequestsOf("removeLabel", n) : writes[n][i].labels = {l}


\* The node went into v2.folders.createFolder.
InCreateFolder(n) ==
    \E i \in 1..Len(rec[n].calls) : rec[n].calls[i].call = "createFolder"

\* The node took over the folder its title search answered with.
FolderReused(n) ==
    /\ InCreateFolder(n)
    /\ rec[n].found # ""
    /\ rec[n].pc \in {"umv", "done"}
    /\ ~rec[n].created

\* C23: a folder that has to be created while a folder of its title is in
\* the space is not created again: the create request goes out only when no
\* folder of the title is there, and a folder taken over is the node's
\* remote object, lying below the parent meant for the node when one is
\* meant.
C23_ExistingFolderReused ==
    \A n \in Nodes :
        /\ (InCreateFolder(n) /\ rec[n].pc = "postFolder")
              => FoundByTitle(files[n]) = {}
        /\ FolderReused(n)
              => /\ rec[n].rid = rec[n].found
                 /\ NonBlank(rec[n].eff) => remote[rec[n].found].parent = rec[n].eff


\* ------------------------------------ C24: failures during reconciliation

\* The places of a node's task at which a remote fetch, search or create call
\* is out (updateMarkdownValues is a call to the adaptor, not to the remote).
RemoteCallOut ==
    {"getFolder", "getSpace", "createFolder", "findFolder", "moveFolder",
     "postFolder", "fetch", "search", "verify", "create"}

\* The remote call of node n's task fails in this step.
CallFailsFor(n) ==
    /\ faults' = faults + 1
    /\ rec[n].pc \in RemoteCallOut
    /\ rec'[n] # rec[n]

\* C24: a remote fetch, search or create call of the reconciliation that
\* fails ends the node's task with the failure and rejects the
\* reconciliation; the task issues no further call.
C24_ReconcileFailurePropagates ==
    [][\A n \in Nodes :
          CallFailsFor(n) =>
              /\ rec'[n].pc = "failed"
              /\ rec'[n].calls = rec[n].calls
              /\ phase' = "rejected"]_vars


\* ------------------------------------ C25: the boundary covers blogposts

\* The title search of ensurePageExists answered node n, a page or a
\* blogpost, with an object whose ancestors lack the boundary ID.
DocumentFoundOutside(n) ==
    /\ files[n] # NoFile
    /\ files[n].contentType \in {"page", "blogpost"}
    /\ rec[n].found # ""
    /\ rec[n].top # Null /\ rec[n].top # ""
    /\ rec[n].top \notin SeqToSet(AncestorsOf(rec[n].found))

\* C25: the boundary check holds for every node resolved through the title
\* search of the document branch, a blogpost as well as a page: a node whose
\* search answered with an object outside the boundary has thrown the
\* boundary error and is not resolved to that object.
C25_BoundaryCoversBlogposts ==
    \A n \in tree :
        DocumentFoundOutside(n)
        => /\ rec[n].pc = "failed" /\ rec[n].err = "boundary"
           /\ rec[n].rid = ""


\* ---------------------------------- C26: every listed node has its pageId

\* ensureAllFilesExistInConfluence has returned its list.
ListReturned == phase \in {"update", "resolved"}

\* C26: every node of the list a successful reconciliation returns has a
\* pageId that is not empty and names an object of the remote; a node whose
\* remote ID was not resolved is not in the list.
C26_ListedNodesHavePageId ==
    ListReturned =>
        \A n \in ReconciledList :
            /\ cnode[n].pageId # ""
            /\ Exists(cnode[n].pageId)
            /\ rec[n].pc = "done" /\ rec[n].rid = cnode[n].pageId


\* ------------------------------------------- C27: the list and its chains

\* The remote IDs of node n's tree ancestors, from the root down to its
\* parent: the root stands for the parent page publish() was given, every
\* other ancestor for the object its task resolved.
RECURSIVE RemoteIdsAbove(_)
RemoteIdsAbove(n) ==
    IF Parent(n) = Root THEN <<files[Root].pageId>>
    ELSE Append(RemoteIdsAbove(Parent(n)), rec[Parent(n)].rid)

\* C27: the list a reconciliation returns has an entry for each node of the
\* tree below the root and none for the root, and the ancestor chain of each
\* entry is the sequence of the remote IDs of the node's tree ancestors from
\* the root down to its parent.
C27_OneEntryPerNodeWithChain ==
    ListReturned =>
        /\ ReconciledList = tree
        /\ Root \notin ReconciledList
        /\ \A n \in ReconciledList : cnode[n].ancestors = RemoteIdsAbove(n)


\* ------------------------------- C28: a client without the folder endpoints

\* Node n is a folder of the tree.
IsFolderNode(n) == n \in tree /\ files[n] # NoFile /\ files[n].contentType = "folder"

\* C28: on a v2 client without the folder endpoints, a folder node that
\* cannot be reconciled for want of them is a failure of that node alone:
\* publish() does not reject.
C28_NoFolderCapabilityIsNodeFailure ==
    \A n \in Nodes :
        (client = "v2nofolders" /\ IsFolderNode(n)
           /\ rec[n].pc = "failed" /\ rec[n].err = "nofolders")
        => phase # "rejected"


\* ------------------------------- C29: the space in frontmatter mode

\* publish() is past the resolution of the space: the adaptor has been asked
\* for the files.
SpaceResolved == phase \in {"files", "reconcile", "update", "resolved"}

\* C29: in frontmatter mode publish() goes on to the files only with the
\* space of a discovered parent page: the candidates before it were skipped
\* and its fetch answered with the page.  When no candidate is left,
\* publish() has rejected, and no task of the reconciler has started.
C29_SpaceFromFirstResolvingCandidate ==
    mode = "frontmatter" =>
        /\ SpaceResolved =>
              /\ psf.left # <<>>
              /\ Exists(Head(psf.left))
              /\ \E k \in 0..Len(psf.found) : psf.left = SubSeq(psf.found, k + 1, Len(psf.found))
        /\ (phase \notin {"idle", "user", "psf"} /\ psf.left = <<>>) =>
              /\ phase = "rejected"
              /\ \A n \in Nodes : rec[n].pc = "wait"


\* ------------------------------------------------- C30: the publishFilter

\* The reconciled nodes publish() was asked for: all of them without a
\* filter, those whose path is the filter with one.
Selected ==
    {n \in ReconciledList : publishFilter = "" \/ absoluteFilePath(n) = publishFilter}

\* C30: once the reconciliation has returned, with a publishFilter every
\* node of the tree has been reconciled all the same; a node that is not
\* selected is never updated and has no record, and when publish() resolves
\* every selected node has its record (without a filter: every reconciled
\* node).
C30_FilterSelectsUpdates ==
    ListReturned =>
        /\ publishFilter # "" => \A n \in tree : rec[n].pc = "done" /\ Exists(rec[n].rid)
        /\ \A n \in Nodes \ Selected :
              /\ upc[n] = "idle"
              /\ writes[n] = <<>> /\ answers[n] = <<>>
              /\ result[n].kind = "none"
        /\ phase = "resolved" =>
              \A n \in Selected : result[n].kind \in {"success", "failure"}

\* publish() was called with the path of node 2 and resolved: node 1 was
\* created by the reconciliation and has no record, node 2 has its record.
C30_Witness ==
    /\ publishFilter = "p2"
    /\ phase = "resolved"
    /\ rec[1].created
    /\ result[1].kind = "none" /\ writes[1] = <<>>
    /\ result[2].kind = "success"


\* --------------------------------------------- C31: both parent IDs declared

\* The engine at rest, for the behaviours of what lies outside publish().
EngineAtRest ==
    /\ rev = "R1" /\ client = "v1" /\ publishFilter = ""
    /\ BeforePublish([n \in Nodes \cup {Root} |-> NoFile], [id \in AllIds |-> NoObj],
                     {}, "legacy", <<>>)

\* A note's front matter has been read by gray-matter.
InitParse ==
    /\ EngineAtRest /\ VaultIdle /\ PluginIdle /\ LabelCallIdle
    /\ \E data \in FrontmatterData :
          frontmatter = [pc |-> "read", read |-> data, data |-> data, warned |-> FALSE]

\* getFrontmatterFromMd returns.
ParseReturns ==
    /\ frontmatter.pc = "read"
    /\ frontmatter' = [pc |-> "returned", read |-> frontmatter.read,
                       data |-> getFrontmatterFromMd(frontmatter.read).data,
                       warned |-> getFrontmatterFromMd(frontmatter.read).warned]
    /\ UNCHANGED <<engineVars, vault, plugin, labelCall>>

SpecParse == InitParse /\ [][ParseReturns]_vars

\* The key carries an ID.
Declares(v) == v \in {"'123'", "456"}

\* C31: front matter that declares both a parent page ID and a parent folder
\* ID is returned with the parent folder ID and without the parent page ID,
\* a warning having been logged and every other key left as it was; no
\* front matter is returned that declares both.
C31_BothParentsKeepsFolder ==
    frontmatter.pc = "returned" =>
        /\ ~(Declares(frontmatter.data.page) /\ Declares(frontmatter.data.folder))
        /\ (Declares(frontmatter.read.page) /\ Declares(frontmatter.read.folder)) =>
              /\ frontmatter.data = [frontmatter.read EXCEPT !.page = Absent]
              /\ frontmatter.warned

\* Front matter with both IDs was read, and returned without the parent page
\* ID.
C31_Witness ==
    /\ frontmatter.pc = "returned"
    /\ frontmatter.read.page = "'123'" /\ frontmatter.read.folder = "456"
    /\ frontmatter.data.page = Absent /\ frontmatter.data.folder = "456"
    /\ frontmatter.warned

\* ------------------------------- C32: a page below a folder-type folder note

\* Node 2 is a page of a publish root whose folder note, node 1, is a
\* folder, and the folder is resolved.
PageBelowFolderNote ==
    /\ mode = "frontmatter"
    /\ files[1].contentType = "folder" /\ files[1].note
    /\ files[2].contentType = "page"
    /\ rec[1].pc = "done" /\ rec[1].rid # ""

\* C32: in frontmatter mode a page of a publish root whose folder note is a
\* folder is created or looked up with the folder's resolved remote ID as its
\* parent, and an update request of the page that carries a parent carries
\* that folder, never the parent page the publish root declares.
C32_PageStaysUnderFolderNote ==
    PageBelowFolderNote =>
        /\ rec[2].pc # "wait" => rec[2].eff = rec[1].rid
        /\ \A i \in 1..Len(writes[2]) :
              writes[2][i].op = "updateContent" /\ writes[2][i].hasAncestors =>
                  Last(writes[2][i].ancestors) = rec[1].rid

\* ------------------- C33: the Obsidian adaptor's write of the front matter

\* The reconciler is about to hand the IDs of three created pages to the
\* adaptor; a path is a note of the vault (a TFile) or not.
InitVault ==
    /\ EngineAtRest /\ ParserIdle /\ PluginIdle /\ LabelCallIdle
    /\ \E tf \in [Nodes -> BOOLEAN] :
          vault = [n \in Nodes |->
                      [isTFile |-> tf[n], pc |-> "idle", write |-> "none", fm |-> ""]]

\* The reconciler of node n is at its call of updateMarkdownValues: the
\* parent's call, if the node has a parent, has been awaited.
AtUpdateMarkdownValues(n) ==
    /\ vault[n].pc = "idle"
    /\ Parent(n) # Root => vault[Parent(n)].pc = "awaited"

\* adaptor.updateMarkdownValues(path, {publish: true, pageId}) runs to its
\* end: for a TFile it calls fileManager.processFrontMatter, whose promise it
\* neither awaits nor returns, and the promise of the async function is
\* resolved with the write still to be done.
ObsidianUpdateMarkdownValues(n) ==
    /\ AtUpdateMarkdownValues(n)
    /\ vault' = [vault EXCEPT ![n].pc = "resolved",
                              ![n].write = IF vault[n].isTFile THEN "pending" ELSE "none"]
    /\ UNCHANGED <<engineVars, frontmatter, plugin, labelCall>>

\* The reconciler resumes after `await adaptor.updateMarkdownValues(...)`: it
\* returns the page and the children of the node are mapped over.
ReconcilerResumes(n) ==
    /\ vault[n].pc = "resolved"
    /\ vault' = [vault EXCEPT ![n].pc = "awaited"]
    /\ UNCHANGED <<engineVars, frontmatter, plugin, labelCall>>

\* processFrontMatter has read the note, applied the callback and written the
\* note back: the page ID is in the front matter.
processFrontMatter(n) ==
    /\ vault[n].write = "pending"
    /\ vault' = [vault EXCEPT ![n].write = "done", ![n].fm = NewIds[n]]
    /\ UNCHANGED <<engineVars, frontmatter, plugin, labelCall>>

VaultNext ==
    \E n \in Nodes : ObsidianUpdateMarkdownValues(n) \/ ReconcilerResumes(n) \/ processFrontMatter(n)

SpecVault == InitVault /\ [][VaultNext]_vars

\* C33: when the promise of updateMarkdownValues has resolved for a note of
\* the vault, the page ID is written in the note's front matter; so it is
\* written before the reconciler resumes and before a child of the node is
\* reconciled.
C33_WriteDoneWhenPromiseResolves ==
    \A n \in Nodes :
        vault[n].isTFile /\ vault[n].pc \in {"resolved", "awaited"} =>
            vault[n].write = "done" /\ vault[n].fm = NewIds[n]

\* ------------------------------- C34: the global parent page in legacy mode

\* Node n is directly below the root and its file declares no parent.
TopLevelWithoutOverride(n) ==
    /\ n \in tree /\ Parent(n) = Root
    /\ files[n].parentPageId = "" /\ files[n].parentFolderId = ""

\* C34: in legacy mode a node directly below the root whose file declares no
\* parent is resolved with the configured global parent page as its effective
\* parent, and the page the reconciler creates for it is a child of that page.
C34_TopLevelUnderGlobalParent ==
    mode = "legacy" =>
        \A n \in Nodes :
            TopLevelWithoutOverride(n) /\ rec[n].pc # "wait" =>
                /\ rec[n].eff = GlobalParentPageId
                /\ rec[n].created /\ files[n].contentType = "page" =>
                      remote[rec[n].rid].parent = GlobalParentPageId

\* ------------------------------- C35: an object without a last editor

\* The remote object node n was reconciled with carries no account ID in its
\* version record: ensurePageExists put "NO ACCOUNT ID" in its place.
NoEditorRecorded(n) == cnode[n].lastUpdatedBy = NoAccountId

\* C35: a node reconciled with a remote object that records no last editor is
\* not stopped by the foreign-edit guard: its update does not end as the
\* failure "last updated by another user".
C35_NoEditorPassesGuard ==
    \A n \in pages :
        NoEditorRecorded(n) =>
            ~(result[n].kind = "failure" /\ result[n].reason = ReasonOf("foreign"))

\* ------------------------------- C36: one remote object per local node

\* Node n is resolved to a remote object.
MappedTo(n) == IF n \in tree /\ rec[n].pc \in {"umv", "done"} THEN rec[n].rid ELSE ""

\* C36: within one run no two nodes of the local tree are resolved to the same
\* remote ID, whatever their titles and whether one is reconciled after the
\* other (a node and its child) or both at once (two children of one node).
C36_DistinctNodesDistinctObjects ==
    \A n \in Nodes, m \in Nodes :
        n # m /\ MappedTo(n) # "" => MappedTo(m) # MappedTo(n)

\* --------------------------------- C37, C38: the plugin's entry points

\* How many publishes the UI starts in a behaviour, and how many remote and
\* adaptor calls one publish makes at most (it makes at least one, the fetch
\* of the current user).
MaxRuns == 2
MaxCalls == 2

\* The ribbon icon and the two commands.  The commands are registered with
\* a checkCallback (src/unnamed/part_000: both; main.ts: publish-current),
\* which Obsidian also calls with checking = true to ask whether the command
\* is available.
EntryPoints == {"ribbon", "publish-all", "publish-current"}
Checkings(e) == IF e = "ribbon" THEN {FALSE} ELSE {FALSE, TRUE}

\* An entry point without the test.
NeverBusy(isSyncing) == FALSE
\* `if (this.isSyncing)`, `if (!this.isSyncing)`: the test every entry point
\* makes before it sets the flag.
Busy(isSyncing) == isSyncing

\* An entry point that leaves the flag as it is when the publish is over.
KeepSyncing(isSyncing) == isSyncing
\* `finally { this.isSyncing = false }`, `.finally(() => ...)`.
Finally(isSyncing) == FALSE

InitPlugin == EngineAtRest /\ ParserIdle /\ VaultIdle /\ PluginIdle /\ LabelCallIdle

\* The publishes that are in progress.
InProgress == {r \in 1..Len(plugin.runs) : plugin.runs[r].pc # "done"}

\* The user clicks the ribbon icon or runs a command.  With the flag set the
\* entry point returns (after a Notice, where there is one); else it sets the
\* flag and calls doPublish, all before its first await.
UiTrigger(e) ==
    \E checking \in Checkings(e) :
        /\ plugin' =
              IF checking THEN [plugin EXCEPT !.last = "asked"]
              ELSE IF Busy(plugin.isSyncing) THEN [plugin EXCEPT !.last = "ignored"]
              ELSE [plugin EXCEPT
                       !.isSyncing = TRUE,
                       !.last = "started",
                       !.runs = Append(@, [via |-> e, pc |-> "publishing", calls |-> 0, failedFiles |-> FALSE,
                                           errorMessage |-> FALSE])]
        /\ Len(plugin'.runs) <= MaxRuns
        /\ UNCHANGED <<engineVars, frontmatter, vault, labelCall>>

\* A remote or adaptor call of the publish r returns or throws.  A throw
\* inside publishFile becomes a failed file; a throw before it rejects
\* publish(), which doPublish catches and returns as errorMessage.
PluginCallReturns(r) ==
    /\ r <= Len(plugin.runs)
    /\ plugin.runs[r].pc = "publishing"
    /\ plugin.runs[r].calls < MaxCalls
    /\ \E o \in {"ok", "file failed", "threw"} :
          plugin' = [plugin EXCEPT
             !.runs[r].calls = @ + 1,
             !.runs[r].failedFiles = @ \/ o = "file failed",
             !.runs[r].errorMessage = o = "threw",
             !.runs[r].pc = IF o = "threw" THEN "returned" ELSE @]
    /\ UNCHANGED <<engineVars, frontmatter, vault, labelCall>>

\* publisher.publish() resolves, the calls it had to make having returned,
\* and doPublish returns the upload results.
DoPublishReturns(r) ==
    /\ r <= Len(plugin.runs)
    /\ plugin.runs[r].pc = "publishing"
    /\ plugin.runs[r].calls >= 1
    /\ plugin' = [plugin EXCEPT !.runs[r].pc = "returned"]
    /\ UNCHANGED <<engineVars, frontmatter, vault, labelCall>>

\* The entry point resumes: the CompletedModal is opened and the finally
\* block runs.
EntryPointFinishes(r) ==
    /\ r <= Len(plugin.runs)
    /\ plugin.runs[r].pc = "returned"
    /\ plugin' = [plugin EXCEPT !.runs[r].pc = "done",
                                !.isSyncing = Finally(plugin.isSyncing)]
    /\ UNCHANGED <<engineVars, frontmatter, vault, labelCall>>

PluginNext ==
    \/ \E e \in EntryPoints : UiTrigger(e)
    \/ \E r \in 1..MaxRuns :
          PluginCallReturns(r) \/ DoPublishReturns(r) \/ EntryPointFinishes(r)

SpecPlugin == InitPlugin /\ [][PluginNext]_vars

\* C37: at most one publish started from the ribbon icon or the two commands
\* is in progress at any time, and a trigger that arrives while isSyncing is
\* set starts no publish and makes no call: it leaves the flag and every
\* publish as they are.
C37_OnePublishAtATime ==
    /\ [](Cardinality(InProgress) <= 1)
    /\ [][plugin.isSyncing /\ plugin'.last # plugin.last =>
             plugin'.runs = plugin.runs /\ plugin'.isSyncing]_vars

\* The publish-all command was run while the publish the ribbon icon started
\* had made a call and not returned: it was ignored.
C37_Witness ==
    /\ plugin.isSyncing /\ plugin.last = "ignored"
    /\ Len(plugin.runs) = 1
    /\ plugin.runs[1].pc = "publishing" /\ plugin.runs[1].calls = 1

\* The event loop runs every continuation that is ready, and every remote
\* and adaptor call returns or throws.
SpecPluginLive ==
    /\ SpecPlugin
    /\ \A r \in 1..MaxRuns :
          /\ WF_vars(PluginCallReturns(r))
          /\ WF_vars(DoPublishReturns(r))
          /\ WF_vars(EntryPointFinishes(r))

RejectedByReconcile == phase = "rejected" /\ threw.step = "reconcile"

\* C39: once publish() has rejected with the failure of one node's
\* reconciliation, no create call and no updateMarkdownValues call is issued
\* for any node.
C39_NoCallsAfterReconcileFailure ==
    [][RejectedByReconcile =>
          \A n \in Nodes :
              /\ Cardinality(CreateCalls(n))' = Cardinality(CreateCalls(n))
              /\ Cardinality(UmvCalls(n))' = Cardinality(UmvCalls(n))]_vars

\* --------------------------- C40: the labels the Obsidian client sends

\* The clients of the repository that implement contentLabels: the object the
\* constructor of ObsidianConfluenceClient builds, on either API version, and
\* the class LabelsApi.
LabelClients == {"ObsidianConfluenceClient v1", "ObsidianConfluenceClient v2", "LabelsApi"}

\* The parameter object updateLabels passes to addLabelsToContent.
AddLabelsParams(id, add) == [id |-> id, body |-> add]
\* params.labels, as the clients read it.
ParamsLabels(params) == IF "labels" \in DOMAIN params THEN params.labels ELSE Undefined

\* updateLabels has been called for a page with the tags D whose remote
\* object has the labels C.
InitLabels ==
    /\ EngineAtRest /\ ParserIdle /\ VaultIdle /\ PluginIdle
    /\ \E impl \in LabelClients, known \in BOOLEAN,
          D \in SUBSET {"a", "b"}, C \in SUBSET {"a", "c", "d"} :
          labelCall = [pc |-> "get", impl |-> impl, typeKnown |-> known, tags |-> D,
                       remote |-> C, add |-> {}, remove |-> {}, wire |-> <<>>,
                       failed |-> FALSE, labelResult |-> "same"]

\* getLabelsForContent answers and updateLabels computes the two differences.
LabelsFetched ==
    /\ labelCall.pc = "get"
    /\ LET add == LabelsToAdd(labelCall.tags, labelCall.remote)
           remove == LabelsToRemove(labelCall.tags, labelCall.remote)
       IN  labelCall' = [labelCall EXCEPT
              !.add = add, !.remove = remove,
              !.labelResult = IF add # {} \/ remove # {} THEN "updated" ELSE @,
              !.pc = IF add # {} THEN "add" ELSE IF remove # {} THEN "remove" ELSE "done"]
    /\ UNCHANGED <<engineVars, frontmatter, vault, plugin>>

\* What becomes of the call once the add is over, or has thrown into the
\* catch of updateLabels.
AfterAdd(lc, threw_) ==
    IF threw_ THEN [lc EXCEPT !.pc = "done", !.labelResult = "error"]
    ELSE [lc EXCEPT !.pc = IF lc.remove # {} THEN "remove" ELSE "done"]

\* contentLabels.addLabelsToContent({id, body: labelsToAdd}).  LabelsApi
\* throws when params.labels is missing.  ObsidianConfluenceClient on v2 with
\* a content type it could determine maps over params.labels, which throws
\* for undefined; otherwise it posts JSON.stringify(params.labels), for
\* undefined a request without a body, which the remote answers by adding
\* nothing or by refusing.
AddLabelsToContent ==
    /\ labelCall.pc = "add"
    /\ LET labels == ParamsLabels(AddLabelsParams("e1", labelCall.add))
       IN  IF labels = Undefined
           THEN IF labelCall.impl = "LabelsApi"
                   \/ (labelCall.impl = "ObsidianConfluenceClient v2" /\ labelCall.typeKnown)
                THEN labelCall' = AfterAdd(labelCall, TRUE)
                ELSE \E refused \in BOOLEAN :
                        labelCall' = AfterAdd([labelCall EXCEPT
                                                 !.wire = Append(@, Undefined),
                                                 !.failed = @ \/ refused], refused)
           ELSE labelCall' = AfterAdd([labelCall EXCEPT !.wire = Append(@, labels),
                                                       !.remote = @ \cup labels], FALSE)
    /\ UNCHANGED <<engineVars, frontmatter, vault, plugin>>

\* removeLabelFromContentUsingQueryParameter answers for one label.
LabelRemoved ==
    /\ labelCall.pc = "remove"
    /\ \E l \in labelCall.remove :
          labelCall' = [labelCall EXCEPT
             !.remove = @ \ {l}, !.remote = @ \ {l},
             !.pc = IF labelCall.remove = {l} THEN "done" ELSE @]
    /\ UNCHANGED <<engineVars, frontmatter, vault, plugin>>

LabelsNext == LabelsFetched \/ AddLabelsToContent \/ LabelRemoved

SpecLabels == InitLabels /\ [][LabelsNext]_vars

\* C40: when a node's label reconciliation is over and no remote call has
\* failed, the labels of the remote object are the node's tags, and the add
\* request on the wire, if labels were to be added, carried exactly them.
C40_RemoteLabelsEqualTags ==
    labelCall.pc = "done" /\ ~labelCall.failed =>
        /\ labelCall.remote = labelCall.tags
        /\ labelCall.add # {} => labelCall.wire = <<labelCall.add>>

====
